---- MODULE Spec2Model ----
\* Session-backed authentication layer of the e-commerce catalog application:
\* the session store and user repository of app/db/mongo.py, the OAuth callback
\* and logout routes of app/api/v1/endpoints/auth.py and the session middleware
\* and logout route of app/main.py.
EXTENDS Integers, Sequences, FiniteSets, TLC

\* ---------------------------------------------------------------- bounds
\* how many ids uuid4 hands out / how many ObjectIds insert_one hands out
MaxSessions == 2
MaxUsers == 2
\* the clock stops advancing here (seconds)
MaxNow == 7201
\* how long a stored tags string gets
MaxTagLen == 3
\* how many logins run concurrently
MaxLogins == 2
\* how many products the collection gets
MaxProducts == 1
\* how many files static/uploads gets
MaxUploads == 2
\* how many products the store holds when it is called directly
MaxStored == 3

\* ------------------------------------------------------ program constants
\* index: PAGE_SIZE = 12
PAGE_SIZE == 12
\* create_session / create_session_with_meta: ttl_seconds = 3600 * 2
DEFAULT_TTL == 7200
\* google_callback: max_age = 3600 * 2
COOKIE_MAX_AGE == 7200

\* ------------------------------------------------------- python values
\* Python's None (never a value a string field can hold)
None == "<None>"
\* truth value of a string-or-None (x or y, if x:)
Truthy(v) == v \notin {None, ""}
\* dict.get(k) with the default None
Get(d, k) == IF k \in DOMAIN d THEN d[k] ELSE None
\* the empty dict {}
EmptyDict == [k \in {} |-> None]
\* results of a call: None, a value, or an exception leaving the call
RetNone == [kind |-> "None"]
RetVal(v) == [kind |-> "value", val |-> v]
RetRaise == [kind |-> "raise"]

\* str(uuid4()): the n-th identifier the generator hands out, as a string
uuid4_str(n) == "s" \o ToString(n)
\* str(ObjectId): the string form of the n-th ObjectId
ObjectId_str(n) == "u" \o ToString(n)
\* ObjectId(s): parses the string form, 0 stands for the InvalidId exception
ObjectId(s) ==
  IF \E n \in 1..(MaxUsers + 1) : ObjectId_str(n) = s
  THEN CHOOSE n \in 1..(MaxUsers + 1) : ObjectId_str(n) = s
  ELSE 0

\* _doc_to_dict: None for a missing document, else the document without
\* '_id' and with 'id' = str(_id)
_doc_to_dict(doc, idstr) ==
  [k \in (DOMAIN doc \ {"_id"}) \cup {"id"} |->
     IF k = "id" THEN idstr ELSE doc[k]]

\* ----------------------------------------------------------------- state
VARIABLES
  now,        \* datetime.utcnow(), in seconds
  sessions,   \* collection 'sessions': _id -> document
  users,      \* collection 'usuarios': ObjectId -> document
  nextSid,    \* how many uuid4 values have been handed out, plus one
  nextOid,    \* how many ObjectIds have been handed out, plus one
  products,   \* the product collection: ObjectId -> document
  nextPid,    \* how many product ObjectIds have been handed out, plus one
  uploads,    \* the files under static/uploads: name -> content
  inflight,   \* the logins inside get_or_create_user_from_info, per thread
  last        \* the last operation: its inputs, its result and what it called

vars == <<now, sessions, users, nextSid, nextOid, products, nextPid, uploads, inflight,
          last>>
\* the product catalog and its files
catalog == <<products, nextPid, uploads>>

\* the clock advances by the default time-to-live or by a second more
TickSteps == {DEFAULT_TTL, DEFAULT_TTL + 1}
\* time-to-live arguments a caller of the session store passes
TTLs == {3600, DEFAULT_TTL}

NoCookie == [kind |-> "None"]
NoOp == [op |-> "init", arg |-> None, ret |-> RetNone, status |-> 0,
         state_user |-> RetNone, set_cookie |-> NoCookie, del_cookie |-> FALSE,
         trace |-> <<>>, input |-> EmptyDict]

Init ==
  /\ now = 0
  /\ sessions = EmptyDict
  /\ users = EmptyDict
  /\ nextSid = 1
  /\ nextOid = 1
  /\ products = EmptyDict
  /\ nextPid = 1
  /\ uploads = EmptyDict
  /\ inflight = [th \in 1..MaxLogins |-> [pc |-> "idle", user_info |-> EmptyDict,
                                           found |-> 0, ret |-> RetNone]]
  /\ last = NoOp

\* ---------------------------------------------------------- session store
\* a delete that removes nothing
delete_one_keeps(coll, id) == coll
\* coll.delete_one({'_id': id})
delete_one(coll, id) == [k \in DOMAIN coll \ {id} |-> coll[k]]
\* coll.insert_one(doc) of a document whose _id is not in the collection
insert_one(coll, id, doc) == [k \in DOMAIN coll \cup {id} |-> IF k = id THEN doc ELSE coll[k]]

\* a session document whose expiry forgets the time-to-live
session_doc_no_ttl(sid, user_id, meta, t, ttl_seconds) ==
  [_id |-> sid, user_id |-> user_id, created_at |-> t,
   expires_at |-> t, meta |-> meta]
\* the session document both create functions build (mongo.py 342-350, 375-381)
session_doc(sid, user_id, meta, t, ttl_seconds) ==
  [_id |-> sid, user_id |-> user_id, created_at |-> t,
   expires_at |-> t + ttl_seconds, meta |-> meta]

\* meta or {}: the meta argument is None (RetNone) or a dict (RetVal)
meta_or_empty(meta) == IF meta.kind = "None" THEN EmptyDict ELSE meta.val

\* create_session(user_id, ttl_seconds): the n-th uuid4 names the document;
\* F names the store calls that raise, and insert_one raises DuplicateKeyError
\* for an _id the collection holds
create_session(coll, n, user_id, t, ttl_seconds, F) ==
  LET sid == uuid4_str(n)
  IN  IF "insert_one" \in F \/ sid \in DOMAIN coll
      THEN [coll |-> coll, ret |-> RetRaise, trace |-> <<"insert_one:raise">>]
      ELSE [coll |-> insert_one(coll, sid, session_doc(sid, user_id, EmptyDict, t, ttl_seconds)),
            ret |-> RetVal(sid), trace |-> <<"insert_one">>]

\* create_session_with_meta(user_id, meta, ttl_seconds)
create_session_with_meta(coll, n, user_id, meta, t, ttl_seconds, F) ==
  LET sid == uuid4_str(n)
  IN  IF "insert_one" \in F \/ sid \in DOMAIN coll
      THEN [coll |-> coll, ret |-> RetRaise, trace |-> <<"insert_one:raise">>]
      ELSE [coll |-> insert_one(coll, sid,
                       session_doc(sid, user_id, meta_or_empty(meta), t, ttl_seconds)),
            ret |-> RetVal(sid), trace |-> <<"insert_one">>]

\* expiry tests that are off by a second, always false, or true at the
\* expiry time itself
is_expired_late(doc, t) == doc.expires_at + 1 < t
is_expired_never(doc, t) == FALSE
is_expired_at_expiry(doc, t) == doc.expires_at <= t
\* get_session's expiry test: doc.get('expires_at') and doc['expires_at'] < utcnow()
is_expired(doc, t) == doc.expires_at < t

\* get_session(session_id) at time t; F names the store calls that raise.
\* Result: the collection afterwards, what the call returns, the store calls made.
get_session(coll, session_id, t, F) ==
  IF "find_one" \in F
  THEN [coll |-> coll, ret |-> RetRaise, trace |-> <<"find_one:raise">>]
  ELSE IF session_id \notin DOMAIN coll
  THEN [coll |-> coll, ret |-> RetNone, trace |-> <<"find_one">>]
  ELSE IF is_expired(coll[session_id], t)
  THEN IF "delete_one" \in F
       THEN [coll |-> coll, ret |-> RetNone, trace |-> <<"find_one", "delete_one:raise">>]
       ELSE [coll |-> delete_one(coll, session_id), ret |-> RetNone,
             trace |-> <<"find_one", "delete_one">>]
  ELSE [coll |-> coll, ret |-> RetVal(_doc_to_dict(coll[session_id], session_id)),
        trace |-> <<"find_one">>]

\* a delete_session that deletes every session of the session's user
delete_session_of_user(coll, session_id, F) ==
  IF "delete_session" \in F
  THEN [coll |-> coll, ret |-> RetRaise, trace |-> <<"delete_session:raise">>]
  ELSE [coll |-> [k \in {x \in DOMAIN coll :
                           session_id \in DOMAIN coll =>
                             coll[x].user_id # coll[session_id].user_id} |-> coll[k]],
        ret |-> RetVal(IF session_id \in DOMAIN coll THEN 1 ELSE 0),
        trace |-> <<"delete_session">>]
\* a delete_session that counts the document and leaves it stored
delete_session_counts_only(coll, session_id, F) ==
  IF "delete_session" \in F
  THEN [coll |-> coll, ret |-> RetRaise, trace |-> <<"delete_session:raise">>]
  ELSE [coll |-> coll, ret |-> RetVal(IF session_id \in DOMAIN coll THEN 1 ELSE 0),
        trace |-> <<"delete_session">>]
\* delete_session(session_id): res.deleted_count, or the exception
delete_session(coll, session_id, F) ==
  IF "delete_session" \in F
  THEN [coll |-> coll, ret |-> RetRaise, trace |-> <<"delete_session:raise">>]
  ELSE [coll |-> delete_one(coll, session_id),
        ret |-> RetVal(IF session_id \in DOMAIN coll THEN 1 ELSE 0),
        trace |-> <<"delete_session">>]

\* ------------------------------------------------------- user repository
\* the text fields of the provider profile that are copied when not None
IdentityTextKeys == {"email", "name", "given_name", "family_name", "picture", "locale"}

\* google_id = user_info.get('sub') or user_info.get('id')
google_id_of(user_info) ==
  IF Truthy(Get(user_info, "sub")) THEN Get(user_info, "sub") ELSE Get(user_info, "id")

\* identity data that also copies the provider's 'role'
identity_data_with_role(user_info) ==
  [k \in {"google_id", "email_verified"}
         \cup {f \in IdentityTextKeys \cup {"role"} : Get(user_info, f) # None} |->
     IF k = "google_id" THEN google_id_of(user_info)
     ELSE IF k = "email_verified"
          THEN ("email_verified" \in DOMAIN user_info /\ user_info["email_verified"])
          ELSE user_info[k]]
\* identity data that keeps the None of a field the provider did not return
identity_data_with_nulls(user_info) ==
  [k \in {"google_id", "email_verified"} \cup IdentityTextKeys |->
     IF k = "google_id" THEN google_id_of(user_info)
     ELSE IF k = "email_verified"
          THEN ("email_verified" \in DOMAIN user_info /\ user_info["email_verified"])
          ELSE Get(user_info, k)]
\* identity_data with the None values removed (mongo.py 225-238): 'role' is
\* not one of its keys
identity_data(user_info) ==
  [k \in {"google_id", "email_verified"}
         \cup {f \in IdentityTextKeys : Get(user_info, f) # None} |->
     IF k = "google_id" THEN google_id_of(user_info)
     ELSE IF k = "email_verified"
          THEN ("email_verified" \in DOMAIN user_info /\ user_info["email_verified"])
          ELSE user_info[k]]

\* {'$set': updates} applied to one document
set_fields(doc, updates) ==
  [k \in DOMAIN doc \cup DOMAIN updates |-> IF k \in DOMAIN updates THEN updates[k] ELSE doc[k]]

\* the unique index on 'email' (ensure_users_indexes): a document whose email
\* (null when absent) another document already holds is rejected
email_taken(coll, self, doc) ==
  \E o \in DOMAIN coll \ {self} : Get(coll[o], "email") = Get(doc, "email")

\* new_user_doc['role'] = user_info.get('role') or 'user'
new_user_role(user_info) ==
  IF Truthy(Get(user_info, "role")) THEN user_info["role"] ELSE "user"

\* get_or_create_user_from_info(user_info) at time t, the n-th ObjectId being
\* the next one insert_one hands out; F names the store calls that raise.
\* Result: the collection afterwards, the returned user or the exception.
get_or_create_user_from_info(coll, n, user_info, t, F) ==
  LET gid == google_id_of(user_info)
      idata == identity_data(user_info)
      found == {o \in DOMAIN coll : coll[o]["google_id"] = gid}
  IN  IF ~Truthy(gid) \/ "users" \in F
      THEN [coll |-> coll, ret |-> RetRaise, created |-> FALSE]
      ELSE IF found # {}
      THEN LET o == CHOOSE x \in found : TRUE
               upd == set_fields(idata, [updated_at |-> t, last_login_at |-> t])
               doc == set_fields(coll[o], upd)
           IN  IF email_taken(coll, o, doc)
               THEN [coll |-> coll, ret |-> RetRaise, created |-> FALSE]
               ELSE [coll |-> [coll EXCEPT ![o] = doc],
                     ret |-> RetVal(_doc_to_dict(doc, ObjectId_str(o))), created |-> FALSE]
      ELSE LET doc == set_fields(idata, [role |-> new_user_role(user_info),
                                         created_at |-> t, updated_at |-> t,
                                         last_login_at |-> t])
               stored == set_fields(doc, [_id |-> n])
           IN  IF email_taken(coll, n, doc)
               THEN [coll |-> coll, ret |-> RetRaise, created |-> FALSE]
               ELSE [coll |-> insert_one(coll, n, stored),
                     ret |-> RetVal(_doc_to_dict(stored, ObjectId_str(n))), created |-> TRUE]

\* get_user_by_dbid(user_id): by _id when user_id parses as an ObjectId, else
\* by a stored 'id' field
get_user_by_dbid(coll, user_id, F) ==
  IF "users" \in F THEN RetRaise
  ELSE IF ObjectId(user_id) # 0
  THEN IF ObjectId(user_id) \in DOMAIN coll
       THEN RetVal(_doc_to_dict(coll[ObjectId(user_id)], user_id))
       ELSE RetNone
  ELSE IF \E o \in DOMAIN coll : Get(coll[o], "id") = user_id
  THEN LET o == CHOOSE x \in DOMAIN coll : Get(coll[x], "id") = user_id
       IN  RetVal(_doc_to_dict(coll[o], ObjectId_str(o)))
  ELSE RetNone

\* ------------------------------------------------------ concurrent logins
\* get_or_create_user_from_info runs in a worker thread as store calls of
\* its own: find_one, then update_one or insert_one. A login in flight:
\* where it stands, its profile, what its find_one returned (0: nothing)
\* and what it returned to the callback.
IdleLogin == [pc |-> "idle", user_info |-> EmptyDict, found |-> 0, ret |-> RetNone]

\* coll.find_one({'google_id': str(google_id)}): the _id found, or 0
find_by_google_id(coll, gid) ==
  IF \E o \in DOMAIN coll : coll[o]["google_id"] = gid
  THEN CHOOSE o \in DOMAIN coll : coll[o]["google_id"] = gid
  ELSE 0

\* a users collection without the unique index on google_id
google_id_taken_no_index(coll, self, doc) == FALSE
\* the unique index on 'google_id' (ensure_users_indexes): a document whose
\* google_id another document already holds is rejected
google_id_taken(coll, self, doc) ==
  \E o \in DOMAIN coll \ {self} : coll[o]["google_id"] = doc["google_id"]

\* the update branch: $set of the identity data and the login timestamps on
\* the document find_one returned; the merged document is returned
update_existing_user(coll, o, user_info, t) ==
  LET upd == set_fields(identity_data(user_info), [updated_at |-> t, last_login_at |-> t])
      doc == set_fields(coll[o], upd)
  IN  IF email_taken(coll, o, doc) \/ google_id_taken(coll, o, doc)
      THEN [coll |-> coll, ret |-> RetRaise]
      ELSE [coll |-> [coll EXCEPT ![o] = doc],
            ret |-> RetVal(_doc_to_dict(doc, ObjectId_str(o)))]

\* the create branch: insert_one of the new document under the n-th
\* ObjectId; the unique indexes reject a duplicate with an exception
insert_new_user(coll, n, user_info, t) ==
  LET doc == set_fields(identity_data(user_info),
                        [role |-> new_user_role(user_info), created_at |-> t,
                         updated_at |-> t, last_login_at |-> t])
      stored == set_fields(doc, [_id |-> n])
  IN  IF email_taken(coll, n, doc) \/ google_id_taken(coll, n, doc)
      THEN [coll |-> coll, ret |-> RetRaise]
      ELSE [coll |-> insert_one(coll, n, stored),
            ret |-> RetVal(_doc_to_dict(stored, ObjectId_str(n)))]

\* ------------------------------------------------------- identity gateway
\* an HTTP answer of the provider, or the httpx.HTTPError of a network failure
Response(status, json) == [kind |-> "response", status_code |-> status, json |-> json]
NetworkError == [kind |-> "HTTPError"]

\* the status code of an answer, 0 for a network failure
answer(resp) == IF resp.kind = "HTTPError" THEN 0 ELSE resp.status_code

\* an exchange that does not look at the status of the userinfo answer
token_exchange_trusts_userinfo(token_resp, user_resp) ==
  IF token_resp.kind = "HTTPError"
  THEN [status |-> 502, net |-> <<"POST token">>]
  ELSE IF token_resp.status_code # 200
  THEN [status |-> 500, net |-> <<"POST token">>]
  ELSE IF ~Truthy(Get(token_resp.json, "access_token"))
  THEN [status |-> 500, net |-> <<"POST token">>]
  ELSE IF user_resp.kind = "HTTPError"
  THEN [status |-> 502, net |-> <<"POST token", "GET userinfo">>]
  ELSE [status |-> 0, net |-> <<"POST token", "GET userinfo">>]
\* an exchange that asks for the token a second time after a failure
token_exchange_retries(token_resp, user_resp) ==
  IF token_resp.kind = "HTTPError"
  THEN [status |-> 502, net |-> <<"POST token", "POST token">>]
  ELSE IF token_resp.status_code # 200
  THEN [status |-> 500, net |-> <<"POST token", "POST token">>]
  ELSE IF ~Truthy(Get(token_resp.json, "access_token"))
  THEN [status |-> 500, net |-> <<"POST token">>]
  ELSE IF user_resp.kind = "HTTPError"
  THEN [status |-> 502, net |-> <<"POST token", "GET userinfo">>]
  ELSE IF user_resp.status_code # 200
  THEN [status |-> 500, net |-> <<"POST token", "GET userinfo">>]
  ELSE [status |-> 0, net |-> <<"POST token", "GET userinfo">>]
\* the provider requests one handling of the callback sends, and what they
\* yield (auth.py 91-123): status 0 when both answers are usable
token_exchange(token_resp, user_resp) ==
  IF token_resp.kind = "HTTPError"
  THEN [status |-> 502, net |-> <<"POST token">>]
  ELSE IF token_resp.status_code # 200
  THEN [status |-> 500, net |-> <<"POST token">>]
  ELSE IF ~Truthy(Get(token_resp.json, "access_token"))
  THEN [status |-> 500, net |-> <<"POST token">>]
  ELSE IF user_resp.kind = "HTTPError"
  THEN [status |-> 502, net |-> <<"POST token", "GET userinfo">>]
  ELSE IF user_resp.status_code # 200
  THEN [status |-> 500, net |-> <<"POST token", "GET userinfo">>]
  ELSE [status |-> 0, net |-> <<"POST token", "GET userinfo">>]

\* the session meta the callback stores (auth.py 135-138)
callback_meta(tokens) ==
  [access_token |-> Get(tokens, "access_token"),
   refresh_token |-> Get(tokens, "refresh_token")]

\* a session cookie whose Secure flag follows COOKIE_SECURE alone
session_cookie_env_only(sid, scheme, cookie_secure_env) ==
  [kind |-> "cookie", key |-> "session_id", value |-> sid, httponly |-> TRUE,
   samesite |-> "lax", secure |-> cookie_secure_env, max_age |-> COOKIE_MAX_AGE]
\* the session cookie of a successful callback (auth.py 144-152)
session_cookie(sid, scheme, cookie_secure_env) ==
  [kind |-> "cookie", key |-> "session_id", value |-> sid, httponly |-> TRUE,
   samesite |-> "lax", secure |-> (cookie_secure_env \/ scheme = "https"),
   max_age |-> COOKIE_MAX_AGE]

\* google_callback: the whole handler. S, U: the collections; nSid, nOid: the
\* next uuid4 and ObjectId; F: the store calls that raise.
google_callback(S, U, nSid, nOid, t, code, token_resp, user_resp, F, scheme, cookie_secure_env) ==
  LET base == [status |-> 400, S |-> S, U |-> U, nSid |-> nSid, nOid |-> nOid,
               set_cookie |-> NoCookie, net |-> <<>>, trace |-> <<>>]
      x == token_exchange(token_resp, user_resp)
  IN  IF ~Truthy(code) THEN base
      ELSE IF x.status # 0
      THEN [base EXCEPT !.status = x.status, !.net = x.net]
      ELSE LET u == get_or_create_user_from_info(U, nOid, user_resp.json, t, F)
           IN  IF u.ret.kind = "raise"
               THEN [base EXCEPT !.status = 500, !.net = x.net,
                                 !.trace = <<"get_or_create_user_from_info:raise">>]
               ELSE LET c == create_session_with_meta(S, nSid, u.ret.val["id"],
                                   RetVal(callback_meta(token_resp.json)), t, DEFAULT_TTL, F)
                        nOid2 == IF u.created THEN nOid + 1 ELSE nOid
                    IN  IF c.ret.kind = "raise"
                        THEN [base EXCEPT !.status = 500, !.net = x.net, !.U = u.coll,
                                          !.nOid = nOid2, !.nSid = nSid + 1,
                                          !.trace = <<"get_or_create_user_from_info",
                                                      "create_session_with_meta:raise">>]
                        ELSE [base EXCEPT !.status = 307, !.net = x.net, !.U = u.coll,
                                          !.S = c.coll, !.nOid = nOid2, !.nSid = nSid + 1,
                                          !.set_cookie = session_cookie(c.ret.val, scheme,
                                                                        cookie_secure_env),
                                          !.trace = <<"get_or_create_user_from_info",
                                                      "create_session_with_meta">>]

\* ------------------------------------------------------------------ logout
\* token_to_revoke = meta.get('refresh_token') or meta.get('access_token')
token_to_revoke(meta) ==
  IF Truthy(Get(meta, "refresh_token")) THEN Get(meta, "refresh_token")
  ELSE Get(meta, "access_token")

\* a logout that a raising revocation ends before the local deletion
google_logout_revoke_propagates(S, sid, t, F, revoke) ==
  IF ~Truthy(sid)
  THEN [status |-> 307, S |-> S, del_cookie |-> TRUE, trace |-> <<>>]
  ELSE LET g == get_session(S, sid, t, F)
           rv == IF g.ret.kind = "value" /\ Truthy(token_to_revoke(g.ret.val["meta"]))
                 THEN <<"revoke:" \o revoke>> ELSE <<>>
           d == delete_session(g.coll, sid, F)
       IN  IF rv = <<"revoke:raise">>
           THEN [status |-> 500, S |-> g.coll, del_cookie |-> FALSE, trace |-> g.trace \o rv]
           ELSE [status |-> 307, S |-> d.coll, del_cookie |-> TRUE,
                 trace |-> g.trace \o rv \o d.trace]
\* google_logout (GET /api/v1/auth/logout): the whole handler. revoke is what
\* the provider's revoke endpoint does when it is called.
google_logout(S, sid, t, F, revoke) ==
  IF ~Truthy(sid)
  THEN [status |-> 307, S |-> S, del_cookie |-> TRUE, trace |-> <<>>]
  ELSE LET g == get_session(S, sid, t, F)
           rv == IF g.ret.kind = "value" /\ Truthy(token_to_revoke(g.ret.val["meta"]))
                 THEN <<"revoke:" \o revoke>> ELSE <<>>
           d == delete_session(g.coll, sid, F)
       IN  [status |-> 307, S |-> d.coll, del_cookie |-> TRUE,
            trace |-> g.trace \o rv \o d.trace]

\* logout (GET /logout): the whole handler
logout(S, sid, F) ==
  IF ~Truthy(sid)
  THEN [status |-> 302, S |-> S, del_cookie |-> FALSE, trace |-> <<>>]
  ELSE LET d == delete_session(S, sid, F)
       IN  [status |-> 302, S |-> d.coll, del_cookie |-> TRUE, trace |-> d.trace]

\* -------------------------------------------------------------- middleware
\* session_middleware: request.state.user after the middleware ran, and the
\* sessions collection afterwards
session_middleware(S, U, sid, t, F) ==
  IF ~Truthy(sid) THEN [S |-> S, user |-> RetNone, trace |-> <<>>]
  ELSE LET g == get_session(S, sid, t, F)
       IN  IF g.ret.kind # "value"
           THEN [S |-> g.coll, user |-> RetNone, trace |-> g.trace]
           ELSE LET u == get_user_by_dbid(U, g.ret.val["user_id"], F)
                IN  [S |-> g.coll, user |-> IF u.kind = "value" THEN u ELSE RetNone,
                     trace |-> g.trace \o <<IF u.kind = "raise" THEN "get_user_by_dbid:raise"
                                                               ELSE "get_user_by_dbid">>]

\* auth_me (GET /api/v1/auth/me) after the middleware set state_user: the
\* status, the user returned and the sessions collection afterwards
auth_me(S, U, state_user, sid, t, F) ==
  IF state_user.kind = "value" THEN [status |-> 200, S |-> S, ret |-> state_user]
  ELSE IF ~Truthy(sid) THEN [status |-> 401, S |-> S, ret |-> RetNone]
  ELSE LET g == get_session(S, sid, t, F)
       IN  IF g.ret.kind = "raise" THEN [status |-> 500, S |-> g.coll, ret |-> RetNone]
           ELSE IF g.ret.kind = "None" THEN [status |-> 401, S |-> g.coll, ret |-> RetNone]
           ELSE LET u == get_user_by_dbid(U, g.ret.val["user_id"], F)
                IN  IF u.kind = "value" THEN [status |-> 200, S |-> g.coll, ret |-> u]
                    ELSE [status |-> 401, S |-> g.coll, ret |-> RetNone]

\* ----------------------------------------------------------------- account
\* update_user_by_dbid(user_id, updates): by _id when user_id parses as an
\* ObjectId, else by a stored 'id' field; the collection afterwards and the
\* updated user, None or the exception
update_user_by_dbid(coll, user_id, updates, F) ==
  IF "users" \in F THEN [coll |-> coll, ret |-> RetRaise]
  ELSE LET found == IF ObjectId(user_id) # 0
                    THEN {o \in DOMAIN coll : o = ObjectId(user_id)}
                    ELSE {o \in DOMAIN coll : Get(coll[o], "id") = user_id}
       IN  IF found = {} THEN [coll |-> coll, ret |-> RetNone]
           ELSE LET o == CHOOSE x \in found : TRUE
                    doc == set_fields(coll[o], updates)
                IN  [coll |-> [coll EXCEPT ![o] = doc],
                     ret |-> RetVal(_doc_to_dict(doc, ObjectId_str(o)))]

\* the fields PATCH /users/me lets a user change, with 'role' added
allowed_with_role == {"name", "picture", "role"}
\* the fields PATCH /users/me lets a user change
allowed == {"name", "picture"}
\* updates = {k: v for k, v in payload.items() if k in allowed and v is not None}
updates_of(payload) ==
  [k \in {f \in DOMAIN payload \cap allowed : payload[f] # None} |-> payload[k]]

\* the id of the current user: current.get('id') or current.get('_id')
current_id(current) ==
  IF Truthy(Get(current, "id")) THEN current["id"] ELSE Get(current, "_id")

\* update_me (PATCH /api/v1/users/me) after the middleware set state_user;
\* payload is the parsed JSON body, or the exception of a body that is none
update_me(U, state_user, payload, t, F) ==
  IF state_user.kind # "value" THEN [status |-> 401, U |-> U, ret |-> RetNone]
  ELSE IF payload.kind # "value" THEN [status |-> 400, U |-> U, ret |-> RetNone]
  ELSE IF DOMAIN updates_of(payload.val) = {} THEN [status |-> 400, U |-> U, ret |-> RetNone]
  ELSE IF ~Truthy(current_id(state_user.val)) THEN [status |-> 500, U |-> U, ret |-> RetNone]
  ELSE LET r == update_user_by_dbid(U, current_id(state_user.val),
                                    set_fields(updates_of(payload.val), [updated_at |-> t]), F)
       IN  IF r.ret.kind # "value" THEN [status |-> 500, U |-> r.coll, ret |-> RetNone]
           ELSE [status |-> 200, U |-> r.coll, ret |-> r.ret]

\* the characters a saved file name keeps: [0-9A-Za-z_.-]
SafeFileChars == {"a", "b", "p", "x", "0", "1", "_", ".", "-"}
\* Path(filename).name: what follows the last '/'
RECURSIVE path_name(_)
path_name(s) ==
  IF \E i \in 1..Len(s) : s[i] = "/"
  THEN path_name(SubSeq(s, (CHOOSE i \in 1..Len(s) : s[i] = "/" /\ \A j \in 1..(i - 1) : s[j] # "/") + 1,
                        Len(s)))
  ELSE s
\* re.sub(r'[^0-9A-Za-z_.-]', '_', name)
safe_name(s) == [i \in 1..Len(s) |-> IF s[i] \in SafeFileChars THEN s[i] ELSE "_"]
\* the characters of a string, joined
RECURSIVE join(_)
join(s) == IF s = <<>> THEN "" ELSE Head(s) \o join(Tail(s))
\* the name an avatar is saved under: <user id>_<seconds>_<safe name>
avatar_filename(current, t, filename) ==
  Get(current, "id") \o "_" \o ToString(t) \o "_" \o join(safe_name(path_name(filename)))

\* upload_avatar (POST /api/v1/users/avatar) after the middleware set
\* state_user: the file is written, then the user's picture is set
upload_avatar(U, files, state_user, t, filename, content, referer, F) ==
  IF state_user.kind # "value"
  THEN [status |-> 401, U |-> U, files |-> files, ret |-> RetNone]
  ELSE IF "write" \in F
  THEN [status |-> 500, U |-> U, files |-> files, ret |-> RetNone]
  ELSE LET fn == avatar_filename(state_user.val, t, filename)
           saved == set_fields(files, [k \in {fn} |-> content])
           picture_url == "/static/uploads/" \o fn
       IN  IF ~Truthy(current_id(state_user.val))
           THEN [status |-> 500, U |-> U, files |-> saved, ret |-> RetNone]
           ELSE LET r == update_user_by_dbid(U, current_id(state_user.val),
                                             [picture |-> picture_url], F)
                IN  IF r.ret.kind # "value"
                    THEN [status |-> 500, U |-> r.coll, files |-> saved, ret |-> RetNone]
                    ELSE [status |-> IF Truthy(referer) THEN 307 ELSE 200, U |-> r.coll,
                          files |-> saved, ret |-> RetVal(picture_url)]

\* the functions app.db.mongo defines
mongo_functions ==
  {"get_client", "get_collection", "_doc_to_dict", "list_products_from_db",
   "count_products", "get_product_from_db", "create_product_in_db",
   "update_product_in_db", "delete_product_in_db", "_now", "ensure_users_indexes",
   "get_or_create_user_from_info", "get_user_by_dbid", "get_user_by_googleid",
   "update_user_by_dbid", "create_session", "create_session_with_meta", "get_session",
   "delete_session", "_build_search_query", "count_products_search",
   "search_products_db", "clean_price", "process_images",
   "generate_title_from_description", "extract_tags_from_description", "load_data_etl"}
\* from app.db.mongo import <name>: whether it succeeds; it raises
\* ImportError otherwise
import_from_mongo(name) == name \in mongo_functions

\* toggle_favorite (POST /api/v1/users/favorites/{product_id}) after the
\* middleware set state_user: the route imports toggle_user_favorite from
\* app.db.mongo inside the worker thread, and the ImportError of a name the
\* module does not define leaves the route as an unhandled exception. The
\* answers it can give; what an imported function returned would come back
\* as is_favorite.
toggle_favorite(U, state_user, product_id) ==
  IF state_user.kind # "value" THEN {[status |-> 401, U |-> U, ret |-> RetNone]}
  ELSE IF ~import_from_mongo("toggle_user_favorite")
  THEN {[status |-> 500, U |-> U, ret |-> RetNone]}
  ELSE {[status |-> 200, U |-> U, ret |-> RetVal([ok |-> TRUE, is_favorite |-> b])] :
          b \in BOOLEAN}

\* ---------------------------------------------------- product documents
\* The values of a product document carry their Python type; a str is the
\* sequence of its characters.
PyNone == [t |-> "none"]
PyStr(s) == [t |-> "str", s |-> s]
PyInt(n) == [t |-> "int", n |-> n]
PyList(l) == [t |-> "list", l |-> l]
PyDict(d) == [t |-> "dict", d |-> d]
PyOid(n) == [t |-> "oid", n |-> n]
\* a float, as the fraction n / d with d a power of ten
PyFloat(n, d) == [t |-> "float", n |-> n, d |-> d]
\* a datetime, as seconds on the clock
PyDate(sec) == [t |-> "datetime", v |-> sec]

\* bool(v)
PyTruthy(v) ==
  CASE v.t = "none" -> FALSE
    [] v.t = "str" -> v.s # <<>>
    [] v.t = "int" -> v.n # 0
    [] v.t = "float" -> v.n # 0
    [] v.t = "list" -> v.l # <<>>
    [] v.t = "dict" -> DOMAIN v.d # {}
    [] OTHER -> TRUE
\* d.get(k)
PyGet(d, k) == IF k \in DOMAIN d THEN d[k] ELSE PyNone
\* a or b
PyOr(a, b) == IF PyTruthy(a) THEN a ELSE b
\* str(ObjectId)
str_of_oid(v) == PyStr(<<"o", ToString(v.n)>>)

\* s.split(',')
RECURSIVE split_comma(_)
split_comma(s) ==
  IF \E i \in 1..Len(s) : s[i] = ","
  THEN LET i == CHOOSE i \in 1..Len(s) : s[i] = "," /\ \A j \in 1..(i - 1) : s[j] # ","
       IN  <<SubSeq(s, 1, i - 1)>> \o split_comma(SubSeq(s, i + 1, Len(s)))
  ELSE <<s>>
\* s.strip()
strip(s) ==
  LET ink == {i \in 1..Len(s) : s[i] # " "}
  IN  IF ink = {} THEN <<>>
      ELSE SubSeq(s, CHOOSE i \in ink : \A j \in ink : i <= j,
                     CHOOSE i \in ink : \A j \in ink : i >= j)
\* list(a_set): the elements in one of the orders the iteration can take
list_of_set(S) ==
  {[i \in 1..Cardinality(S) |-> q[i]] :
     q \in {f \in [1..Cardinality(S) -> S] :
              \A i, j \in 1..Cardinality(S) : i # j => f[i] # f[j]}}

\* a tag parser that keeps the repetitions of a token
_parse_tags_keeps_duplicates(tags_str) ==
  IF tags_str = <<>> THEN {<<>>}
  ELSE LET parts == split_comma(tags_str)
           kept == SelectSeq([i \in 1..Len(parts) |-> strip(parts[i])],
                             LAMBDA t : t # <<>>)
       IN  {[i \in 1..Len(kept) |-> PyStr(kept[i])]}
\* _parse_tags(tags_str): the lists it can return
_parse_tags(tags_str) ==
  IF tags_str = <<>> THEN {<<>>}
  ELSE LET parts == split_comma(tags_str)
           tokens == {strip(parts[i]) : i \in 1..Len(parts)} \ {<<>>}
       IN  list_of_set({PyStr(t) : t \in tokens})

Sin_Nombre == PyStr(<<"S", "i", "n", " ", "N", "o", "m", "b", "r", "e">>)

\* a name chain that asks the legacy key first
resolve_name_legacy_first(doc) ==
  PyOr(PyOr(PyOr(PyGet(doc, "titulo"), PyGet(doc, "name")), PyGet(doc, "nombre")),
       Sin_Nombre)
\* the fallback chains of _normalize_product
resolve_name(doc) ==
  PyOr(PyOr(PyOr(PyGet(doc, "name"), PyGet(doc, "titulo")), PyGet(doc, "nombre")),
       Sin_Nombre)
resolve_description(doc) ==
  PyOr(PyOr(PyGet(doc, "description"), PyGet(doc, "descripcion")), PyStr(<<>>))
resolve_price(doc) ==
  PyOr(PyOr(PyGet(doc, "price"), PyGet(doc, "precio")), PyInt(0))

\* image and images of _normalize_product
resolve_images(doc) ==
  LET image0 == PyGet(doc, "image")
      images0 == PyOr(PyGet(doc, "images"), PyList(<<>>))
      legacy == PyGet(doc, "imagenes")
      from_dict == ~PyTruthy(image0) /\ legacy.t = "dict"
      image1 == IF from_dict THEN PyGet(legacy.d, "portada") ELSE image0
      images1 == IF from_dict THEN PyOr(PyGet(legacy.d, "lista_completa"), images0)
                 ELSE images0
      images2 == IF ~PyTruthy(images1) /\ legacy.t = "list" THEN legacy ELSE images1
  IN  [image |-> image1, images |-> PyOr(images2, PyList(<<>>))]

\* a tags normalization that passes a string on as it is stored
normalize_tags_unparsed(doc) ==
  {PyOr(PyGet(doc, "tags"), PyList(<<>>))}
\* the tags of _normalize_product: the values it can produce
normalize_tags(doc) ==
  LET tags == PyOr(PyGet(doc, "tags"), PyList(<<>>))
  IN  IF tags.t = "str" THEN {PyList(l) : l \in _parse_tags(tags.s)} ELSE {tags}

\* _normalize_product(doc): the results it can return
_normalize_product(doc) ==
  IF DOMAIN doc = {} THEN {doc}
  ELSE {[id |-> PyOr(PyGet(doc, "id"),
                     IF PyTruthy(PyGet(doc, "_id")) THEN str_of_oid(doc["_id"])
                     ELSE PyStr(<<>>)),
         name |-> resolve_name(doc),
         description |-> resolve_description(doc),
         price |-> resolve_price(doc),
         image |-> resolve_images(doc).image,
         images |-> resolve_images(doc).images,
         tags |-> tags,
         category |-> PyGet(doc, "category")] : tags \in normalize_tags(doc)}

\* ---------------------------------------------------------------- catalog
\* the characters of a string literal
Chars_uploads == <<"/", "s", "t", "a", "t", "i", "c", "/", "u", "p", "l", "o", "a", "d", "s", "/">>
General == <<"G", "e", "n", "e", "r", "a", "l">>
Digits == {"0", "1", "2", "3", "4", "5", "6", "7", "8", "9"}
\* str(n) of a natural number, as characters
RECURSIVE digits(_)
digits(n) == IF n < 10 THEN <<ToString(n)>> ELSE digits(n \div 10) \o <<ToString(n % 10)>>
\* int(s) of a string of digits
RECURSIVE int_of(_)
int_of(s) ==
  IF s = <<>> THEN 0
  ELSE 10 * int_of(SubSeq(s, 1, Len(s) - 1))
         + (CHOOSE d \in 0..9 : ToString(d) = s[Len(s)])
RECURSIVE pow10(_)
pow10(k) == IF k = 0 THEN 1 ELSE 10 * pow10(k - 1)

\* an admin check that lets every logged-in user through
_ensure_admin_any_user(state_user) == state_user.kind = "value"
\* _ensure_admin(request): whether it returns; it raises 403 otherwise
_ensure_admin(state_user) ==
  state_user.kind = "value" /\ Get(state_user.val, "role") = "admin"

\* save_upload_files(files): static/uploads afterwards and the web paths of
\* the files saved; a file that cannot be written is skipped
RECURSIVE save_upload_files(_, _, _, _)
save_upload_files(store, image_files, t, F) ==
  IF image_files = <<>> THEN [files |-> store, paths |-> <<>>]
  ELSE LET file == Head(image_files)
           clean_name == SelectSeq(file.filename, LAMBDA c : c \in SafeFileChars)
           safe_filename == digits(t * 1000) \o <<"_">> \o clean_name
           failed == file.filename = <<>> \/ "write" \in F
           rest == save_upload_files(
                     IF failed THEN store
                     ELSE set_fields(store, [k \in {join(safe_filename)} |-> file.content]),
                     Tail(image_files), t, F)
       IN  [files |-> rest.files,
            paths |-> (IF failed THEN <<>> ELSE <<PyStr(Chars_uploads \o safe_filename)>>)
                        \o rest.paths]

\* create_product: clean_price = int(re.sub(r'[^\d]', '', price)), 0 on
\* ValueError
clean_price_create(price) ==
  PyInt(int_of(SelectSeq(price, LAMBDA c : c \in Digits)))
\* update_product: float or int of the price without '$' and ',', 0 when
\* neither parses
clean_price_update(price) ==
  LET str == SelectSeq(price, LAMBDA c : c \notin {"$", ","})
      dots == {i \in 1..Len(str) : str[i] = "."}
      figs == SelectSeq(str, LAMBDA c : c # ".")
      numeric == figs # <<>> /\ \A i \in 1..Len(figs) : figs[i] \in Digits
  IN  IF dots # {}
      THEN IF Cardinality(dots) = 1 /\ numeric
           THEN PyFloat(int_of(figs), pow10(Len(str) - (CHOOSE i \in dots : TRUE)))
           ELSE PyInt(0)
      ELSE IF numeric THEN PyInt(int_of(figs)) ELSE PyInt(0)

\* tag_list = [t.strip() for t in tags.split(',') if t.strip()]
tag_list(tags) ==
  LET parts == split_comma(tags)
      kept == SelectSeq([i \in 1..Len(parts) |-> strip(parts[i])], LAMBDA x : x # <<>>)
  IN  [i \in 1..Len(kept) |-> PyStr(kept[i])]
\* "category": tag_list[0] if tag_list else "General"
category_of(tl) == IF tl # <<>> THEN tl[1] ELSE PyStr(General)

\* ObjectId(product_id) of a path parameter, 0 standing for InvalidId
ProductOid(product_id) ==
  IF \E n \in 1..(MaxProducts + MaxStored + 2) : str_of_oid(PyOid(n)).s = product_id
  THEN CHOOSE n \in 1..(MaxProducts + MaxStored + 2) : str_of_oid(PyOid(n)).s = product_id
  ELSE 0
\* the documents a product id selects: by _id, or by a stored 'id' when the
\* id is no ObjectId
product_filter(P, product_id) ==
  IF ProductOid(product_id) # 0
  THEN {o \in DOMAIN P : o = ProductOid(product_id)}
  ELSE {o \in DOMAIN P : PyGet(P[o], "id") = PyStr(product_id)}

\* create_product_in_db(payload): the collection afterwards and the new id
create_product_in_db(P, n, payload, F) ==
  IF "insert_one" \in F THEN [coll |-> P, ret |-> RetRaise]
  ELSE [coll |-> [o \in DOMAIN P \cup {n} |->
                    IF o = n THEN set_fields(payload, [_id |-> PyOid(n)]) ELSE P[o]],
        ret |-> RetVal(str_of_oid(PyOid(n)))]

\* update_product_in_db(product_id, payload): the collection afterwards and
\* modified_count, or the exception raised again
update_product_in_db(P, product_id, payload, F) ==
  LET found == product_filter(P, strip(product_id))
  IN  IF "update_one" \in F THEN [coll |-> P, ret |-> RetRaise]
      ELSE IF found = {} THEN [coll |-> P, ret |-> RetVal(0)]
      ELSE LET o == CHOOSE x \in found : \A y \in found : x <= y
               doc == set_fields(P[o], payload)
           IN  [coll |-> [P EXCEPT ![o] = doc],
                ret |-> RetVal(IF doc = P[o] THEN 0 ELSE 1)]

\* delete_product_in_db(product_id): the collection afterwards and
\* deleted_count
delete_product_in_db(P, product_id, F) ==
  LET found == product_filter(P, product_id)
  IN  IF "delete_one" \in F THEN [coll |-> P, ret |-> RetRaise]
      ELSE IF found = {} THEN [coll |-> P, ret |-> RetVal(0)]
      ELSE LET o == CHOOSE x \in found : \A y \in found : x <= y
           IN  [coll |-> [x \in DOMAIN P \ {o} |-> P[x]], ret |-> RetVal(1)]

\* create_product (POST /product) after the middleware set state_user
create_product(P, store, n, state_user, form, t, F) ==
  IF ~_ensure_admin(state_user)
  THEN [status |-> 403, P |-> P, files |-> store, nPid |-> n, ret |-> RetNone]
  ELSE LET tl == tag_list(form.tags)
           sv == save_upload_files(store, form.image_files, t, F)
           payload == [name |-> PyStr(form.title),
                       description |-> PyStr(form.description),
                       price |-> clean_price_create(form.price),
                       tags |-> PyList(tl),
                       category |-> category_of(tl),
                       image |-> IF sv.paths # <<>> THEN sv.paths[1] ELSE PyStr(<<>>),
                       images |-> PyList(sv.paths),
                       created_at |-> PyDate(t),
                       updated_at |-> PyDate(t)]
           r == create_product_in_db(P, n, payload, F)
       IN  IF r.ret.kind = "raise"
           THEN [status |-> 500, P |-> r.coll, files |-> sv.files, nPid |-> n, ret |-> RetNone]
           ELSE [status |-> 201, P |-> r.coll, files |-> sv.files, nPid |-> n + 1,
                 ret |-> RetVal([status |-> "created", id |-> r.ret.val])]

\* the gallery of update_product: kept and new images, the empty ones and
\* the repetitions dropped, in order
RECURSIVE gallery(_, _)
gallery(imgs, seen) ==
  IF imgs = <<>> THEN <<>>
  ELSE IF PyTruthy(Head(imgs)) /\ Head(imgs) \notin seen
       THEN <<Head(imgs)>> \o gallery(Tail(imgs), seen \cup {Head(imgs)})
       ELSE gallery(Tail(imgs), seen)

\* update_product (PUT /product/{product_id}) after the middleware set
\* state_user
update_product(P, store, state_user, product_id, form, t, F) ==
  IF ~_ensure_admin(state_user)
  THEN [status |-> 403, P |-> P, files |-> store, ret |-> RetNone]
  ELSE LET tl == tag_list(form.tags)
           sv == save_upload_files(store, form.image_files, t, F)
           updated_gallery == gallery(form.kept_images \o sv.paths, {})
           payload == [name |-> PyStr(strip(form.title)),
                       description |-> PyStr(strip(form.description)),
                       price |-> clean_price_update(form.price),
                       tags |-> PyList(tl),
                       category |-> category_of(tl),
                       image |-> IF updated_gallery # <<>> THEN updated_gallery[1]
                                 ELSE PyStr(<<>>),
                       images |-> PyList(updated_gallery),
                       updated_at |-> PyDate(t)]
           r == update_product_in_db(P, product_id, payload, F)
       IN  IF r.ret.kind = "raise"
           THEN [status |-> 500, P |-> r.coll, files |-> sv.files, ret |-> RetNone]
           ELSE [status |-> 200, P |-> r.coll, files |-> sv.files,
                 ret |-> RetVal([status |-> "updated", modified |-> r.ret.val,
                                 matched |-> TRUE])]

\* delete_product_action (POST /product/delete/{product_id}) after the
\* middleware set state_user
delete_product_action(P, state_user, product_id, F) ==
  IF ~_ensure_admin(state_user) THEN [status |-> 403, P |-> P, ret |-> RetNone]
  ELSE LET r == delete_product_in_db(P, product_id, F)
       IN  IF r.ret.kind = "raise" THEN [status |-> 500, P |-> r.coll, ret |-> RetNone]
           ELSE [status |-> 303, P |-> r.coll, ret |-> RetNone]

\* a _doc_to_dict that keeps the 'id' a document stores
_doc_to_dict_keeps_id(doc) ==
  [k \in (DOMAIN doc \ {"_id"}) \cup {"id"} |->
     IF k = "id" /\ "id" \notin DOMAIN doc
     THEN (IF "_id" \in DOMAIN doc THEN str_of_oid(doc["_id"]) ELSE PyNone)
     ELSE doc[k]]
\* _doc_to_dict(doc) of a product: '_id' gives way to 'id', its string
_doc_to_dict_product(doc) ==
  [k \in (DOMAIN doc \ {"_id"}) \cup {"id"} |->
     IF k = "id" THEN (IF "_id" \in DOMAIN doc THEN str_of_oid(doc["_id"]) ELSE PyNone)
     ELSE doc[k]]
\* the key find().sort("created_at", -1) orders by: a document without the
\* field comes after every dated one
created_key(doc) ==
  IF PyGet(doc, "created_at").t = "datetime" THEN doc["created_at"].v ELSE -1
\* the orders the cursor can deliver the collection in: newest first, and
\* documents of one date in either order
sorted_cursor(P) ==
  {q \in list_of_set(DOMAIN P) :
     \A i, j \in 1..Len(q) : i < j => created_key(P[q[i]]) >= created_key(P[q[j]])}
\* list_products_from_db(page, page_size, limit): the lists it can return;
\* an exception of the store is logged and an empty list returned
list_products_from_db(P, page, page_size, limit, F) ==
  IF "find" \in F THEN {<<>>}
  ELSE {LET from == IF limit > 0 THEN 1 ELSE (page - 1) * page_size + 1
            upto == IF limit > 0 THEN limit ELSE page * page_size
            cut == SubSeq(q, from, IF upto < Len(q) THEN upto ELSE Len(q))
        IN  [i \in 1..Len(cut) |-> _doc_to_dict_product(P[cut[i]])] : q \in sorted_cursor(P)}
\* list_products (GET /api/v1/products): the answers it can give
list_products(P, limit, F) ==
  {[status |-> 200, items |-> items] :
     items \in UNION {{f \in [1..Len(prods) -> UNION {_normalize_product(prods[i]) : i \in 1..Len(prods)}] :
                         \A i \in 1..Len(prods) : f[i] \in _normalize_product(prods[i])} :
                      prods \in list_products_from_db(P, 1, 12, limit, F)}}

\* get_product_from_db(product_id): the document as a dict, or None
get_product_from_db(P, product_id, F) ==
  LET found == product_filter(P, product_id)
  IN  IF "find_one" \in F THEN RetRaise
      ELSE IF found = {} THEN RetNone
      ELSE RetVal(_doc_to_dict_product(P[CHOOSE x \in found : \A y \in found : x <= y]))

\* count_products(): an exception of the store is logged and 0 returned
count_products(P, F) == IF "count_documents" \in F THEN 0 ELSE Cardinality(DOMAIN P)
\* math.ceil(total_products / PAGE_SIZE) if total_products > 0 else 1
total_pages(total_products, page_size) ==
  IF total_products > 0 THEN (total_products + page_size - 1) \div page_size ELSE 1
\* index (GET /) without a search: the ids of the products shown and the
\* pagination context, for each list the store can return
index(P, page, F) ==
  {[status |-> 200,
    products |-> [i \in 1..Len(raw_products) |-> raw_products[i].id],
    pagination |-> [current_page |-> page,
                    total_pages |-> total_pages(count_products(P, F), PAGE_SIZE),
                    has_next |-> page < total_pages(count_products(P, F), PAGE_SIZE),
                    has_prev |-> page > 1,
                    next_page |-> page + 1,
                    prev_page |-> page - 1]] :
     raw_products \in list_products_from_db(P, page, PAGE_SIZE, 0, F)}

\* ----------------------------------------------------------------- actions
\* the wall clock advances
Tick ==
  \E d \in TickSteps :
    /\ now + d <= MaxNow
    /\ now' = now + d
    /\ UNCHANGED inflight
    /\ last' = [NoOp EXCEPT !.op = "tick"]
    /\ UNCHANGED <<sessions, users, nextSid, nextOid>>
    /\ UNCHANGED catalog

\* user ids a caller of the session store passes: a well-formed id and one
\* that is no ObjectId
UserIdArgs == {ObjectId_str(1), "ghost"}

\* meta arguments a caller of create_session_with_meta passes
MetaArgs == {RetNone, RetVal([access_token |-> "at1", refresh_token |-> None])}

\* create_session(user_id), called on the store directly
CreateSession ==
  \E user_id \in UserIdArgs, ttl \in {DEFAULT_TTL}, F \in {{}, {"insert_one"}} :
    /\ nextSid <= MaxSessions
    /\ \E r \in {create_session(sessions, nextSid, user_id, now, ttl, F)} :
           /\ nextSid' = nextSid + 1
           /\ sessions' = r.coll
           /\ UNCHANGED inflight
           /\ last' = [NoOp EXCEPT !.op = "create_session", !.arg = user_id,
                         !.ret = r.ret, !.trace = r.trace,
                         !.input = [ttl |-> ttl, meta |-> RetNone]]
    /\ UNCHANGED <<now, users, nextOid>>
    /\ UNCHANGED catalog

\* create_session_with_meta(user_id, meta, ttl_seconds), called on the store
\* directly
CreateSessionWithMeta ==
  \E user_id \in UserIdArgs, meta \in MetaArgs, ttl \in TTLs, F \in {{}, {"insert_one"}} :
    /\ nextSid <= MaxSessions
    /\ \E r \in {create_session_with_meta(sessions, nextSid, user_id, meta, now, ttl, F)} :
           /\ nextSid' = nextSid + 1
           /\ sessions' = r.coll
           /\ UNCHANGED inflight
           /\ last' = [NoOp EXCEPT !.op = "create_session_with_meta", !.arg = user_id,
                         !.ret = r.ret, !.trace = r.trace,
                         !.input = [ttl |-> ttl, meta |-> meta]]
    /\ UNCHANGED <<now, users, nextOid>>
    /\ UNCHANGED catalog

\* session ids a client can send: every id the generator can hand out and
\* one it never hands out
SidArgs == {uuid4_str(n) : n \in 1..MaxSessions} \cup {"bogus"}

\* get_session(session_id)
GetSession ==
  \E sid \in SidArgs, F \in {{}, {"find_one"}, {"delete_one"}} :
    \E r \in {get_session(sessions, sid, now, F)} :
        /\ sessions' = r.coll
        /\ UNCHANGED inflight
        /\ last' = [NoOp EXCEPT !.op = "get_session", !.arg = sid, !.ret = r.ret,
                      !.trace = r.trace]
        /\ UNCHANGED <<now, users, nextSid, nextOid>>
        /\ UNCHANGED catalog


\* what the token endpoint can answer
TokenResponses ==
  {Response(200, [access_token |-> "at1", refresh_token |-> "rt1"]),
   Response(200, [access_token |-> "at1"]),
   Response(200, EmptyDict),
   Response(400, EmptyDict),
   Response(201, [access_token |-> "at1"]),
   NetworkError}

\* the profiles the userinfo endpoint can return
Profiles ==
  {[sub |-> "g1", email |-> "a@x", name |-> "Ann"],
   [sub |-> "g1", email |-> "a@x", name |-> "Bea", role |-> "admin"],
   [id |-> "g2", email |-> "b@x", picture |-> "p.png", role |-> "admin",
    email_verified |-> TRUE],
   [sub |-> "g2", email |-> "a@x"],
   [email |-> "c@x", name |-> "Cy"]}

\* what the userinfo endpoint can answer
UserinfoResponses ==
  {Response(200, p) : p \in Profiles}
    \cup {Response(401, [sub |-> "g1", email |-> "a@x", name |-> "Ann"]),
          Response(204, EmptyDict), NetworkError}

\* the session_id cookie of a request: none, or a session id
CookieArgs == SidArgs \cup {None}

\* the store failures one request is subjected to: none, or one call raising
FaultSets == {{}, {"find_one"}, {"delete_one"}, {"delete_session"}, {"users"},
              {"insert_one"}}

\* the inputs of one callback, without the combinations that differ only in
\* an input the handler never reads: the token answer decides alone when it
\* is unusable, the userinfo answer when it is, and the request scheme and
\* COOKIE_SECURE matter only to a callback that sets the cookie, which one
\* for a profile without subject id never does. Store failures, https and
\* COOKIE_SECURE are tried with the token answer that carries both tokens;
\* the one without refresh_token is tried with the first profile.
CallbackInput(i) ==
  LET x == token_exchange(i.token_resp, i.user_resp)
      plain == i.F = {} /\ i.scheme = "http" /\ ~i.cookie_secure_env
      first_user == i.user_resp = NetworkError
  IN  /\ ~(i.scheme = "https" /\ i.cookie_secure_env)
      /\ ~Truthy(i.code) => plain /\ first_user /\ i.token_resp = NetworkError
      /\ Len(x.net) = 1 => plain /\ first_user
      /\ x.status # 0 => plain
      /\ (x.status = 0 /\ ~Truthy(google_id_of(i.user_resp.json))) => plain
      /\ i.F # {} => i.scheme = "http" /\ ~i.cookie_secure_env
      /\ ~plain => Truthy(Get(i.token_resp.json, "refresh_token"))
      /\ (x.status = 0 /\ ~Truthy(Get(i.token_resp.json, "refresh_token")))
            => i.user_resp = Response(200, [sub |-> "g1", email |-> "a@x", name |-> "Ann"])

CallbackInputs ==
  {i \in [code : {None, "code"}, token_resp : TokenResponses,
          user_resp : UserinfoResponses, F : {{}, {"users"}, {"insert_one"}},
          scheme : {"http", "https"}, cookie_secure_env : BOOLEAN] : CallbackInput(i)}

\* GET /api/v1/auth/google/callback, with its inputs drawn from I
Callback(I) ==
  \E i \in I :
    /\ \E r \in {google_callback(sessions, users, nextSid, nextOid, now, i.code,
                 i.token_resp, i.user_resp, i.F, i.scheme,
                 i.cookie_secure_env)} :
           /\ r.nSid <= MaxSessions + 1
           /\ r.nOid <= MaxUsers + 1
           /\ sessions' = r.S
           /\ users' = r.U
           /\ nextSid' = r.nSid
           /\ nextOid' = r.nOid
           /\ UNCHANGED inflight
           /\ last' = [NoOp EXCEPT !.op = "google_callback", !.arg = i.code,
                         !.status = r.status, !.set_cookie = r.set_cookie,
                         !.trace = r.net \o r.trace,
                         !.input = [token |-> answer(i.token_resp),
                                    userinfo |-> answer(i.user_resp),
                                    profile |-> IF i.user_resp = NetworkError THEN EmptyDict
                                                ELSE i.user_resp.json,
                                    scheme |-> i.scheme,
                                    cookie_secure_env |-> i.cookie_secure_env]]
    /\ UNCHANGED now
    /\ UNCHANGED catalog

\* GET /api/v1/auth/google/callback
GoogleCallback == Callback(CallbackInputs)

\* the callbacks whose code the provider accepts and answers with both
\* tokens and a profile, over http and with no store failure
LoginInputs ==
  {i \in CallbackInputs :
     /\ Truthy(i.code) /\ i.F = {} /\ i.scheme = "http" /\ ~i.cookie_secure_env
     /\ i.token_resp = Response(200, [access_token |-> "at1", refresh_token |-> "rt1"])
     /\ i.user_resp \in {Response(200, p) : p \in Profiles}}
\* GET /api/v1/auth/google/callback of a login the provider lets through
Login == Callback(LoginInputs)

\* the logins of the catalog: one of a profile that carries no role and one
\* of a profile that carries the role 'admin'
CatalogLoginInputs ==
  {i \in LoginInputs :
     i.user_resp.json \in {[sub |-> "g1", email |-> "a@x", name |-> "Ann"],
                           [id |-> "g2", email |-> "b@x", picture |-> "p.png",
                            role |-> "admin", email_verified |-> TRUE]}}
CatalogLogin == Callback(CatalogLoginInputs)

\* what the provider's revoke endpoint does when called
RevokeOutcomes == {"200", "400", "raise"}

\* GET /api/v1/auth/logout
GoogleLogout ==
  \E sid \in CookieArgs, F \in FaultSets \ {{"users"}, {"insert_one"}},
     revoke \in RevokeOutcomes :
    \E r \in {google_logout(sessions, sid, now, F, revoke)} :
        /\ sessions' = r.S
        /\ UNCHANGED inflight
        /\ last' = [NoOp EXCEPT !.op = "google_logout", !.arg = sid, !.status = r.status,
                      !.del_cookie = r.del_cookie, !.trace = r.trace]
        /\ UNCHANGED <<now, users, nextSid, nextOid>>
        /\ UNCHANGED catalog

\* GET /logout
Logout ==
  \E sid \in CookieArgs, F \in {{}, {"delete_session"}} :
    \E r \in {logout(sessions, sid, F)} :
        /\ sessions' = r.S
        /\ UNCHANGED inflight
        /\ last' = [NoOp EXCEPT !.op = "logout", !.arg = sid, !.status = r.status,
                      !.del_cookie = r.del_cookie, !.trace = r.trace]
        /\ UNCHANGED <<now, users, nextSid, nextOid>>
        /\ UNCHANGED catalog

\* GET /api/v1/auth/me: the middleware, then the route; the route reads the
\* store, and so can meet a failure of its own, only when the middleware
\* found no user for a cookie
AuthMe ==
  \E sid \in CookieArgs, F1 \in {{}, {"find_one"}, {"users"}} :
    \E m \in {session_middleware(sessions, users, sid, now, F1)} :
    \E F2 \in IF m.user.kind = "value" \/ ~Truthy(sid) THEN {{}} ELSE {{}, {"find_one"}} :
    \E r \in {auth_me(m.S, users, m.user, sid, now, F2)} :
        /\ sessions' = r.S
        /\ UNCHANGED inflight
        /\ last' = [NoOp EXCEPT !.op = "auth_me", !.arg = sid, !.state_user = m.user,
                      !.status = r.status, !.ret = r.ret, !.trace = m.trace]
        /\ UNCHANGED <<now, users, nextSid, nextOid>>
        /\ UNCHANGED catalog

\* the JSON bodies PATCH /users/me is sent: none that parses, an empty
\* object, the updatable fields, and objects that name other fields
PatchPayloads ==
  {RetRaise, RetVal(EmptyDict),
   RetVal([name |-> "Zed"]),
   RetVal([name |-> None, role |-> "admin"]),
   RetVal([name |-> "Zed", picture |-> "z.png", role |-> "admin", email |-> "z@x",
           google_id |-> "g9"])}

\* PATCH /api/v1/users/me: the middleware, then the route; the user store
\* can fail under the route once it has something to write
UpdateMe ==
  \E sid \in CookieArgs, payload \in PatchPayloads :
    \E m \in {session_middleware(sessions, users, sid, now, {})} :
    \E F \in IF m.user.kind = "value" /\ payload.kind = "value"
                  /\ DOMAIN updates_of(payload.val) # {}
             THEN {{}, {"users"}} ELSE {{}} :
    \E r \in {update_me(users, m.user, payload, now, F)} :
        /\ sessions' = m.S
        /\ users' = r.U
        /\ UNCHANGED inflight
        /\ last' = [NoOp EXCEPT !.op = "update_me", !.arg = sid, !.state_user = m.user,
                      !.status = r.status, !.ret = r.ret, !.trace = m.trace,
                      !.input = payload]
        /\ UNCHANGED <<now, nextSid, nextOid>>
        /\ UNCHANGED catalog

\* the names of the files a browser uploads
FileNames == {<<"x", "/", "a", " ", "b">>}

\* POST /api/v1/users/avatar: the middleware, then the route; writing the
\* file and the user store can fail under the route
UploadAvatar ==
  \E sid \in CookieArgs, filename \in FileNames, referer \in {None, "/perfil"} :
    \E m \in {session_middleware(sessions, users, sid, now, {})} :
    \E F \in IF m.user.kind = "value" THEN {{}, {"write"}, {"users"}} ELSE {{}} :
    \E r \in {upload_avatar(users, uploads, m.user, now, filename, "img", referer, F)} :
        /\ sessions' = m.S
        /\ users' = r.U
        /\ Cardinality(DOMAIN r.files) <= MaxUploads
        /\ uploads' = r.files
        /\ UNCHANGED inflight
        /\ last' = [NoOp EXCEPT !.op = "upload_avatar", !.arg = sid, !.state_user = m.user,
                      !.status = r.status, !.ret = r.ret, !.trace = m.trace,
                      !.input = [filename |-> filename, referer |-> referer]]
        /\ UNCHANGED <<now, nextSid, nextOid, products, nextPid>>

\* the forms the product routes are sent
PlainForm ==
  [title |-> <<"T">>, description |-> <<>>, price |-> <<"1", "2">>,
   tags |-> <<"a", ",", " ", "b">>, image_files |-> <<>>]
Forms ==
  {PlainForm,
   [title |-> <<" ", "U">>, description |-> <<"d", " ">>, price |-> <<"$", "1", ".", "5">>,
    tags |-> <<>>, image_files |-> <<[filename |-> <<"x", " ", "y">>, content |-> "img"]>>]}
\* the product ids of a path: every id the collection can hand out and one
\* that is no ObjectId
ProductIdArgs == {str_of_oid(PyOid(n)).s : n \in 1..MaxProducts} \cup {<<"z">>}

\* the forms tried with a request: all of them when the route reads the
\* form, one when it turns the request away before
FormsFor(state_user) ==
  IF state_user.kind = "value" THEN Forms
  ELSE {[title |-> <<"T">>, description |-> <<>>, price |-> <<"1", "2">>,
         tags |-> <<"a", ",", " ", "b">>,
         image_files |-> <<[filename |-> <<"x", " ", "y">>, content |-> "img"]>>]}

\* POST /product: the middleware, then the route; writing a file and the
\* insert can fail under the route
CreateProduct ==
  \E sid \in CookieArgs :
    \E m \in {session_middleware(sessions, users, sid, now, {})} :
    \E form \in FormsFor(m.user) :
    \E F \in IF _ensure_admin(m.user) THEN {{}, {"write"}, {"insert_one"}} ELSE {{}} :
    \E r \in {create_product(products, uploads, nextPid, m.user, form, now, F)} :
        /\ r.nPid <= MaxProducts + 1
        /\ Cardinality(DOMAIN r.files) <= MaxUploads
        /\ sessions' = m.S
        /\ products' = r.P
        /\ nextPid' = r.nPid
        /\ uploads' = r.files
        /\ UNCHANGED inflight
        /\ last' = [NoOp EXCEPT !.op = "create_product", !.arg = sid, !.state_user = m.user,
                      !.status = r.status, !.ret = r.ret, !.trace = m.trace,
                      !.input = form]
        /\ UNCHANGED <<now, users, nextSid, nextOid>>

\* PUT /product/{product_id}: the middleware, then the route; the images to
\* keep are none or the ones some product has
UpdateProduct ==
  \E sid \in CookieArgs, product_id \in ProductIdArgs,
     kept_images \in {<<>>} \cup {products[o]["images"].l : o \in DOMAIN products} :
    \E m \in {session_middleware(sessions, users, sid, now, {})} :
    \E form \in FormsFor(m.user) :
    \E F \in IF _ensure_admin(m.user) THEN {{}, {"update_one"}} ELSE {{}} :
    \E r \in {update_product(products, uploads, m.user, product_id,
                             set_fields(form, [kept_images |-> kept_images]), now, F)} :
        /\ Cardinality(DOMAIN r.files) <= MaxUploads
        /\ sessions' = m.S
        /\ products' = r.P
        /\ uploads' = r.files
        /\ UNCHANGED inflight
        /\ last' = [NoOp EXCEPT !.op = "update_product", !.arg = sid, !.state_user = m.user,
                      !.status = r.status, !.ret = r.ret, !.trace = m.trace,
                      !.input = [product_id |-> product_id, form |-> form,
                                 kept_images |-> kept_images]]
        /\ UNCHANGED <<now, users, nextSid, nextOid, nextPid>>

\* POST /product/delete/{product_id}: the middleware, then the route
DeleteProduct ==
  \E sid \in CookieArgs, product_id \in ProductIdArgs :
    \E m \in {session_middleware(sessions, users, sid, now, {})} :
    \E F \in IF _ensure_admin(m.user) THEN {{}, {"delete_one"}} ELSE {{}} :
    \E r \in {delete_product_action(products, m.user, product_id, F)} :
        /\ sessions' = m.S
        /\ products' = r.P
        /\ UNCHANGED inflight
        /\ last' = [NoOp EXCEPT !.op = "delete_product_action", !.arg = sid,
                      !.state_user = m.user, !.status = r.status, !.trace = m.trace,
                      !.input = [product_id |-> product_id]]
        /\ UNCHANGED <<now, users, nextSid, nextOid, nextPid, uploads>>

\* GET /api/v1/products; the store can fail under the query
ListProducts ==
  \E limit \in {0, 1}, F \in {{}, {"find"}} :
    \E r \in list_products(products, limit, F) :
        /\ UNCHANGED inflight
        /\ last' = [NoOp EXCEPT !.op = "list_products", !.arg = limit, !.status = r.status,
                      !.ret = RetVal(r.items),
                      !.trace = <<IF "find" \in F THEN "find:raise" ELSE "find">>]
        /\ UNCHANGED <<now, sessions, users, nextSid, nextOid>>
        /\ UNCHANGED catalog

\* POST /api/v1/users/favorites/{product_id}: the middleware, then the route
ToggleFavorite ==
  \E sid \in CookieArgs, product_id \in {"o1", "o2"} :
    \E m \in {session_middleware(sessions, users, sid, now, {})} :
    \E r \in toggle_favorite(users, m.user, product_id) :
        /\ sessions' = m.S
        /\ users' = r.U
        /\ UNCHANGED inflight
        /\ last' = [NoOp EXCEPT !.op = "toggle_favorite", !.arg = sid, !.state_user = m.user,
                      !.status = r.status, !.ret = r.ret, !.trace = m.trace,
                      !.input = [product_id |-> product_id]]
        /\ UNCHANGED <<now, nextSid, nextOid>>
        /\ UNCHANGED catalog

\* the profiles of the concurrent logins: one identity twice, under two
\* names and e-mail addresses, and a second identity
ConcurrentProfiles ==
  {[sub |-> "g1", email |-> "a@x", name |-> "Ann"],
   [sub |-> "g1", email |-> "c@x", name |-> "Bea"],
   [sub |-> "g2", email |-> "b@x", name |-> "Cy"]}

\* a callback reaches get_or_create_user_from_info with the profile of its
\* identity
LoginBegin ==
  \E th \in 1..MaxLogins, user_info \in ConcurrentProfiles :
    /\ inflight[th].pc = "idle"
    /\ inflight' = [inflight EXCEPT ![th] = [IdleLogin EXCEPT !.pc = "find_one",
                                                             !.user_info = user_info]]
    /\ last' = [NoOp EXCEPT !.op = "login_begin", !.arg = th]
    /\ UNCHANGED <<now, sessions, users, nextSid, nextOid>>
    /\ UNCHANGED catalog

\* existing_user = coll.find_one({'google_id': str(google_id)})
LoginFind ==
  \E th \in 1..MaxLogins :
    /\ inflight[th].pc = "find_one"
    /\ inflight' = [inflight EXCEPT ![th].pc = "write",
                                    ![th].found = find_by_google_id(users,
                                                    google_id_of(inflight[th].user_info))]
    /\ last' = [NoOp EXCEPT !.op = "login_find", !.arg = th]
    /\ UNCHANGED <<now, sessions, users, nextSid, nextOid>>
    /\ UNCHANGED catalog

\* coll.update_one(...) when find_one returned a document, else
\* coll.insert_one(new_user_doc); the function returns or raises
LoginWrite ==
  \E th \in 1..MaxLogins :
    /\ inflight[th].pc = "write"
    /\ \E r \in {IF inflight[th].found # 0
                 THEN update_existing_user(users, inflight[th].found,
                                           inflight[th].user_info, now)
                 ELSE insert_new_user(users, nextOid, inflight[th].user_info, now)} :
         /\ users' = r.coll
         /\ nextOid' = IF DOMAIN r.coll # DOMAIN users THEN nextOid + 1 ELSE nextOid
         /\ nextOid' <= MaxUsers + 1
         /\ inflight' = [inflight EXCEPT ![th].pc = "done", ![th].ret = r.ret]
         /\ last' = [NoOp EXCEPT !.op = "login_write", !.arg = th, !.ret = r.ret]
    /\ UNCHANGED <<now, sessions, nextSid>>
    /\ UNCHANGED catalog

\* a key a stored document does not have
Absent == [t |-> "absent"]
\* the stored document with this _id and, under keys[i], the value vals[i]
\* when that is present
Doc(oid, keys, vals) ==
  [k \in {"_id"} \cup {keys[i] : i \in {j \in 1..Len(keys) : vals[j] # Absent}} |->
     IF k = "_id" THEN PyOid(oid) ELSE vals[CHOOSE i \in 1..Len(keys) : keys[i] = k]]
\* the characters of a stored tags string
TagChars == {"a", "b", ",", " "}
TagStrings == UNION {[1..n -> TagChars] : n \in 0..MaxTagLen}
\* what a stored document can hold under 'tags'
TagValues ==
  {Absent, PyNone, PyInt(0), PyInt(5), PyList(<<>>), PyList(<<PyStr(<<"a">>)>>),
   PyList(<<PyStr(<<"b">>), PyStr(<<"a">>), PyStr(<<"b">>)>>)}
    \cup {PyStr(s) : s \in TagStrings}
\* what a stored document can hold under a text key and under a price key
TextValues(c) == {Absent, PyNone, PyStr(<<>>), PyStr(<<c>>)}
PriceValues(n) == {Absent, PyNone, PyInt(0), PyInt(n)}
\* what a stored document can hold under image, images and imagenes
ImageValues == {Absent, PyStr(<<>>), PyStr(<<"c">>)}
\* the 'images' value load_data_etl builds for a row with these files
etl_images(all, cover) ==
  PyDict([all |-> PyList(all), cover |-> PyStr(cover), count |-> PyInt(Len(all))])
ImagesValues ==
  {Absent, PyList(<<>>), PyList(<<PyStr(<<"i">>)>>),
   etl_images(<<>>, <<>>), etl_images(<<PyStr(<<"i">>), PyStr(<<"j">>)>>, <<"i">>)}
ImagenesValues ==
  {Absent, PyList(<<PyStr(<<"l">>)>>),
   PyDict([portada |-> PyStr(<<"p">>)]),
   PyDict([portada |-> PyStr(<<"p">>),
           lista_completa |-> PyList(<<PyStr(<<"p">>), PyStr(<<"q">>)>>)])}
\* the product documents stored under an _id: one group of keys varies
StoredDocs(oid) ==
  {Doc(oid, <<"name", "titulo", "nombre">>, <<a, b, c>>) :
     a \in TextValues("n"), b \in TextValues("t"), c \in TextValues("m")}
    \cup {Doc(oid, <<"description", "descripcion">>, <<a, b>>) :
            a \in TextValues("d"), b \in TextValues("e")}
    \cup {Doc(oid, <<"price", "precio">>, <<a, b>>) :
            a \in PriceValues(5), b \in PriceValues(7)}
    \cup {Doc(oid, <<"tags", "category">>, <<a, b>>) :
            a \in TagValues, b \in {Absent, PyStr(<<"g">>)}}
    \cup {Doc(oid, <<"image", "images", "imagenes">>, <<a, b, c>>) :
            a \in ImageValues, b \in ImagesValues, c \in ImagenesValues}

\* _normalize_product(doc) on a stored document, taken under the ObjectId the
\* store hands out next
NormalizeProduct ==
  \E doc \in StoredDocs(nextOid) :
    \E r \in _normalize_product(doc) :
        /\ UNCHANGED inflight
        /\ last' = [NoOp EXCEPT !.op = "_normalize_product", !.arg = doc, !.ret = RetVal(r)]
        /\ UNCHANGED <<now, sessions, users, nextSid, nextOid>>
        /\ UNCHANGED catalog


\* payloads a caller of create_product_in_db passes: dated, dated later, and
\* undated with an 'id' of its own
StorePayloads ==
  {[name |-> PyStr(<<"n">>), created_at |-> PyDate(0)],
   [name |-> PyStr(<<"n">>), created_at |-> PyDate(1)],
   [name |-> PyStr(<<"n">>), id |-> PyStr(<<"x">>)]}
\* ids a caller of the product store passes: the ObjectIds it can hand out and
\* a string that is no ObjectId
StoreIds == {str_of_oid(PyOid(n)).s : n \in 1..MaxStored} \cup {<<"x">>}
\* page sizes a caller of list_products_from_db passes
PageSizes == {1, 2}

\* create_product_in_db(payload), called on the store directly
CreateProductInDb ==
  \E payload \in StorePayloads :
    /\ nextPid <= MaxStored
    /\ \E r \in {create_product_in_db(products, nextPid, payload, {})} :
        /\ products' = r.coll
        /\ nextPid' = nextPid + 1
        /\ last' = [NoOp EXCEPT !.op = "create_product_in_db", !.arg = payload, !.ret = r.ret]
    /\ UNCHANGED <<now, sessions, users, nextSid, nextOid, uploads, inflight>>

\* get_product_from_db(product_id), called on the store directly
GetProductFromDb ==
  \E product_id \in StoreIds :
    /\ last' = [NoOp EXCEPT !.op = "get_product_from_db", !.arg = product_id,
                  !.ret = get_product_from_db(products, product_id, {})]
    /\ UNCHANGED <<now, sessions, users, nextSid, nextOid, uploads, inflight, products, nextPid>>

\* delete_product_in_db(product_id), called on the store directly
DeleteProductInDb ==
  \E product_id \in StoreIds :
    \E r \in {delete_product_in_db(products, product_id, {})} :
        /\ products' = r.coll
        /\ last' = [NoOp EXCEPT !.op = "delete_product_in_db", !.arg = product_id, !.ret = r.ret]
        /\ UNCHANGED <<now, sessions, users, nextSid, nextOid, uploads, inflight, nextPid>>

\* list_products_from_db(page, page_size, limit), called on the store directly
ListProductsFromDb ==
  \E page \in 1..MaxStored, page_size \in PageSizes, limit \in 0..2 :
    \E r \in list_products_from_db(products, page, page_size, limit, {}) :
        /\ last' = [NoOp EXCEPT !.op = "list_products_from_db",
                      !.input = [page |-> page, page_size |-> page_size, limit |-> limit],
                      !.ret = RetVal(r)]
        /\ UNCHANGED <<now, sessions, users, nextSid, nextOid, uploads, inflight, products, nextPid>>

\* GET /?page=..: the home page without a search
Index ==
  \E page \in 1..2 :
    \E r \in index(products, page, {}) :
        /\ last' = [NoOp EXCEPT !.op = "index", !.input = [page |-> page],
                      !.status = r.status, !.ret = RetVal(r)]
        /\ UNCHANGED <<now, sessions, users, nextSid, nextOid, uploads, inflight, products, nextPid>>

\* ------------------------------------------------------------------ claims
\* the elements of a sequence
Range(seq) == {seq[i] : i \in 1..Len(seq)}

\* C1: get_session never returns a session whose expires_at is earlier than
\* the current time; for a stored session past its expiry the lookup returns
\* None.
C1_ExpiredNeverReturned ==
  /\ last.op = "get_session" /\ last.ret.kind = "value"
       => last.ret.val["expires_at"] >= now
  /\ \A sid \in DOMAIN sessions :
       sessions[sid]["expires_at"] < now
         => \A F \in {{}, {"delete_one"}} : get_session(sessions, sid, now, F).ret = RetNone

\* an expired session that is still stored was looked up, and None came back
C1_Witness ==
  /\ last.op = "get_session" /\ last.ret = RetNone
  /\ last.arg \in DOMAIN sessions
  /\ sessions[last.arg]["expires_at"] < now

C3_RoleUnchangedByLogin ==
  [][\A o \in DOMAIN users :
       /\ o \in DOMAIN users'
       /\ users'[o]["role"] = users[o]["role"]
       /\ users'[o]["google_id"] = users[o]["google_id"]]_vars

\* a user created with role 'user' has logged in again with a profile that
\* carries role 'admin' (the one that names them Bea)
C3_Witness ==
  /\ last.op = "google_callback" /\ last.status = 307
  /\ \E o \in DOMAIN users :
       /\ users[o]["role"] = "user"
       /\ Get(users[o], "name") = "Bea"
       /\ users[o]["last_login_at"] > users[o]["created_at"]

\* what a revocation attempt and a local deletion attempt leave in the trace
RevokeEvents == {"revoke:200", "revoke:400", "revoke:raise"}
DeleteEvents == {"delete_session", "delete_session:raise"}

C5_RevokeBeforeDelete ==
  [][\A sid \in DOMAIN sessions :
       (/\ last'.op \in {"google_logout", "logout"} /\ last'.arg = sid
        /\ sessions[sid]["expires_at"] >= now
        /\ "find_one:raise" \notin Range(last'.trace)
        /\ \/ Truthy(Get(sessions[sid]["meta"], "refresh_token"))
           \/ Truthy(Get(sessions[sid]["meta"], "access_token")))
         => \E i, j \in 1..Len(last'.trace) :
              /\ i < j
              /\ last'.trace[i] \in RevokeEvents
              /\ last'.trace[j] \in DeleteEvents]_vars

\* the ids handed out by the creations before this one
IssuedBefore == {uuid4_str(n) : n \in 1..(nextSid - 1)}

\* C6: a session creation returns an id different from the id of every
\* session created before, replaces no stored document, and stores the given
\* user id, the given metadata ({} when none is given) and expires_at =
\* created_at + TTL.
C6_CreateFreshSession ==
  [][(last'.op \in {"create_session", "create_session_with_meta"}
        /\ last'.ret.kind = "value")
       => LET sid == last'.ret.val
          IN  /\ sid \notin IssuedBefore
              /\ sid \notin DOMAIN sessions
              /\ DOMAIN sessions' = DOMAIN sessions \cup {sid}
              /\ \A k \in DOMAIN sessions : sessions'[k] = sessions[k]
              /\ sessions'[sid]["_id"] = sid
              /\ sessions'[sid]["user_id"] = last'.arg
              /\ sessions'[sid]["meta"] =
                   (IF last'.input["meta"].kind = "None" THEN EmptyDict
                    ELSE last'.input["meta"].val)
              /\ sessions'[sid]["created_at"] = now
              /\ sessions'[sid]["expires_at"] = now + last'.input["ttl"]
              /\ last'.op = "create_session" => last'.input["ttl"] = 7200]_vars

\* a second session was created beside a stored one, with metadata and a
\* time-to-live of its own
C6_Witness ==
  /\ last.op = "create_session_with_meta" /\ last.ret.kind = "value"
  /\ Cardinality(DOMAIN sessions) = 2
  /\ sessions[last.ret.val]["meta"] # EmptyDict
  /\ sessions[last.ret.val]["expires_at"] = now + 3600

\* C7: when the token request or the userinfo request of the callback gets a
\* non-2xx answer or a network failure, the callback ends with an error
\* response and changes nothing: no user, no session, no cookie.
C7_FailedExchangeChangesNothing ==
  [][(/\ last'.op = "google_callback" /\ Truthy(last'.arg)
      /\ \/ last'.input["token"] \notin 200..299
         \/ /\ "GET userinfo" \in Range(last'.trace)
            /\ last'.input["userinfo"] \notin 200..299)
       => /\ last'.status >= 400
          /\ users' = users
          /\ sessions' = sessions
          /\ last'.set_cookie = NoCookie]_vars

\* with a user stored, a callback whose userinfo request got 401 ended in an
\* error
C7_Witness ==
  /\ last.op = "google_callback"
  /\ last.input["token"] = 200 /\ last.input["userinfo"] = 401
  /\ last.trace = <<"POST token", "GET userinfo">>
  /\ last.status = 500
  /\ users # EmptyDict

\* how often a request occurs in a trace
Count(seq, e) == Cardinality({i \in 1..Len(seq) : seq[i] = e})

\* C8: one handling of the callback sends at most one token request and at
\* most one userinfo request, and no userinfo request after a failed token
\* request.
C8_NoRetry ==
  last.op = "google_callback"
    => /\ Count(last.trace, "POST token") <= 1
       /\ Count(last.trace, "GET userinfo") <= 1
       /\ last.input["token"] \notin 200..299
            => Count(last.trace, "GET userinfo") = 0
       /\ \A i \in 1..Len(last.trace) :
            last.trace[i] = "GET userinfo" => i > 1 /\ last.trace[1] = "POST token"

\* a callback whose token request got 400 sent that one request and no other
C8_Witness ==
  /\ last.op = "google_callback"
  /\ last.input["token"] = 400
  /\ last.trace = <<"POST token">>
  /\ last.status = 500

\* C9: request.state.user is a user only if the session_id cookie names a
\* stored session that is not expired at lookup time and whose user_id is
\* the id of a stored user, and it is that user; otherwise it is None. When
\* all of that holds and no store call raises, it is set.
C9_UserOnlyFromLiveSession ==
  [][last'.op = "auth_me"
       => LET sid == last'.arg
              u == last'.state_user
              live == /\ Truthy(sid) /\ sid \in DOMAIN sessions
                      /\ sessions[sid]["expires_at"] >= now
                      /\ \E o \in DOMAIN users :
                           ObjectId_str(o) = sessions[sid]["user_id"]
          IN  /\ u.kind \in {"None", "value"}
              /\ u.kind = "value"
                   => /\ live
                      /\ \E o \in DOMAIN users :
                           /\ ObjectId_str(o) = sessions[sid]["user_id"]
                           /\ u.val["id"] = sessions[sid]["user_id"]
                           /\ DOMAIN u.val = (DOMAIN users[o] \ {"_id"}) \cup {"id"}
                           /\ \A k \in DOMAIN users[o] \ {"_id"} : u.val[k] = users[o][k]
              /\ (live /\ \A e \in Range(last'.trace) :
                            e \notin {"find_one:raise", "get_user_by_dbid:raise"})
                   => u.kind = "value"]_vars

\* with two users stored, a request was resolved to the second of them
C9_Witness ==
  /\ last.op = "auth_me"
  /\ last.state_user.kind = "value"
  /\ Cardinality(DOMAIN users) = 2
  /\ last.state_user.val["id"] = "u2"

\* C10: a session that has not reached its expiry and was not logged out
\* stays retrievable: a lookup returns it and leaves every document as it
\* was; no step changes a stored session document; and a document is removed
\* only by a logout naming it or by a lookup made after its expiry.
C10_LiveSessionStays ==
  [][\A sid \in DOMAIN sessions :
       /\ sid \in DOMAIN sessions' => sessions'[sid] = sessions[sid]
       /\ sid \notin DOMAIN sessions'
            => \/ last'.op \in {"google_logout", "logout"} /\ last'.arg = sid
               \/ /\ last'.op = "get_session" /\ last'.arg = sid
                  /\ sessions[sid]["expires_at"] < now
       /\ (/\ last'.op = "get_session" /\ last'.arg = sid
           /\ last'.ret.kind # "raise"
           /\ sessions[sid]["expires_at"] >= now)
            => /\ last'.ret.kind = "value"
               /\ last'.ret.val = [id |-> sid,
                                   user_id |-> sessions[sid]["user_id"],
                                   created_at |-> sessions[sid]["created_at"],
                                   expires_at |-> sessions[sid]["expires_at"],
                                   meta |-> sessions[sid]["meta"]]
               /\ sessions' = sessions]_vars

\* a lookup made at the very expiry time returned the session, still stored
C10_Witness ==
  /\ last.op = "get_session" /\ last.ret.kind = "value"
  /\ last.ret.val["expires_at"] = now
  /\ now > last.ret.val["created_at"]
  /\ last.arg \in DOMAIN sessions

\* C11: _normalize_product returns a result whose tags field is a list for
\* every stored document in which tags is a string, a list, or absent.
C11_TagsListForStringListAbsent ==
  (/\ last.op = "_normalize_product"
   /\ \/ "tags" \notin DOMAIN last.arg
      \/ last.arg["tags"].t \in {"str", "list"})
    => last.ret.val["tags"].t = "list"

\* a stored tags string with two different tokens came back as a list of two
C11_Witness ==
  /\ last.op = "_normalize_product"
  /\ "tags" \in DOMAIN last.arg
  /\ last.arg["tags"].t = "str"
  /\ last.ret.val["tags"].t = "list"
  /\ Len(last.ret.val["tags"].l) = 2

\* C12: name is the first non-empty of name, titulo, nombre, else
\* 'Sin Nombre'; description the first non-empty of description,
\* descripcion, else the empty string; price the first non-zero of price,
\* precio, else 0: the first key of a chain with a usable value wins.
C12_OrderedFallback ==
  last.op = "_normalize_product"
    => LET d == last.arg
           r == last.ret.val
           usable(k) == /\ k \in DOMAIN d
                        /\ \/ d[k].t = "str" /\ Len(d[k].s) > 0
                           \/ d[k].t = "int" /\ d[k].n # 0
       IN  /\ r["name"] = (IF usable("name") THEN d["name"]
                           ELSE IF usable("titulo") THEN d["titulo"]
                           ELSE IF usable("nombre") THEN d["nombre"]
                           ELSE Sin_Nombre)
           /\ r["description"] = (IF usable("description") THEN d["description"]
                                  ELSE IF usable("descripcion") THEN d["descripcion"]
                                  ELSE [t |-> "str", s |-> <<>>])
           /\ r["price"] = (IF usable("price") THEN d["price"]
                            ELSE IF usable("precio") THEN d["precio"]
                            ELSE [t |-> "int", n |-> 0])

\* with an empty name and both legacy keys filled, titulo was taken
C12_Witness ==
  /\ last.op = "_normalize_product"
  /\ {"name", "titulo", "nombre"} \subseteq DOMAIN last.arg
  /\ last.arg["name"] = PyStr(<<>>)
  /\ last.arg["titulo"] = PyStr(<<"t">>)
  /\ last.arg["nombre"] = PyStr(<<"m">>)
  /\ last.ret.val["name"] = PyStr(<<"t">>)

\* C13: normalization coerces a string or scalar tags field into a
\* deduplicated list: for a comma-separated string the result holds every
\* trimmed non-empty token exactly once and nothing else, and for a
\* non-string scalar the result is a list too.
C13_TagsCoercedToList ==
  (/\ last.op = "_normalize_product"
   /\ "tags" \in DOMAIN last.arg
   /\ last.arg["tags"].t \in {"str", "int"})
    => LET tags == last.ret.val["tags"]
           parts == split_comma(last.arg["tags"].s)
       IN  /\ tags.t = "list"
           /\ last.arg["tags"].t = "str"
                => /\ \A i, j \in 1..Len(tags.l) : i # j => tags.l[i] # tags.l[j]
                   /\ {tags.l[i] : i \in 1..Len(tags.l)}
                        = {PyStr(strip(parts[i])) : i \in 1..Len(parts)} \ {PyStr(<<>>)}

\* C14: a login the provider lets through, of a user the store already has,
\* leaves every identity field (email, name, given_name, family_name,
\* picture, locale) the profile carries at the profile's value, also one the
\* user had changed through PATCH /users/me, and leaves every identity field
\* the profile does not carry at its stored value.
C14_LoginMergesIdentity ==
  [][(last'.op = "google_callback" /\ last'.status = 307) =>
       \A o \in DOMAIN users :
         users[o]["google_id"] = google_id_of(last'.input.profile) =>
           /\ o \in DOMAIN users'
           /\ \A f \in IdentityTextKeys :
                 IF Get(last'.input.profile, f) # None
                 THEN Get(users'[o], f) = last'.input.profile[f]
                 ELSE Get(users'[o], f) = Get(users[o], f)]_vars
\* a user whose name and picture were changed through PATCH /users/me logged
\* in again: the name is the provider's again, the picture, which the
\* profile does not carry, is still the changed one
C14_Witness ==
  /\ last.op = "google_callback" /\ last.status = 307
  /\ last.input.profile = [sub |-> "g1", email |-> "a@x", name |-> "Ann"]
  /\ \E o \in DOMAIN users :
        /\ users[o]["google_id"] = "g1" /\ users[o]["name"] = "Ann"
        /\ Get(users[o], "picture") = "z.png"

\* C16: the cookie a successful callback sets is named session_id, is
\* HTTP-only, SameSite=Lax, lives 7200 seconds, is secure whenever the
\* request came over https, and its value is the id of a session that did
\* not exist before and now belongs to the user the profile logged in.
C16_SessionCookie ==
  [][(last'.op = "google_callback" /\ last'.status = 307) =>
       /\ last'.set_cookie.kind = "cookie"
       /\ last'.set_cookie.key = "session_id"
       /\ last'.set_cookie.httponly
       /\ last'.set_cookie.samesite = "lax"
       /\ last'.set_cookie.max_age = 7200
       /\ (last'.input.scheme = "https" => last'.set_cookie.secure)
       /\ last'.set_cookie.value \notin DOMAIN sessions
       /\ last'.set_cookie.value \in DOMAIN sessions'
       /\ \E o \in DOMAIN users' :
             /\ users'[o]["google_id"] = google_id_of(last'.input.profile)
             /\ sessions'[last'.set_cookie.value]["user_id"] = ObjectId_str(o)]_vars
\* a callback over https, with COOKIE_SECURE unset, has set the cookie of the
\* second session
C16_Witness ==
  /\ last.op = "google_callback" /\ last.status = 307
  /\ last.input.scheme = "https" /\ ~last.input.cookie_secure_env
  /\ last.set_cookie.secure
  /\ last.set_cookie.value = uuid4_str(2)
  /\ last.set_cookie.value \in DOMAIN sessions

\* the fields PATCH /users/me may leave changed on the current user
PatchedKeys == {"name", "picture", "updated_at"}
C15_ListingFailureIsHttpError ==
  (/\ last.op = "list_products"
   /\ "find:raise" \in Range(last.trace)
   /\ DOMAIN products # {}) => last.status >= 400

\* C18: POST /users/favorites/{product_id} of a logged-in user answers ok
\* with is_favorite, and is_favorite says whether the product is among the
\* user's favorites afterwards.
C18_ToggleFavorite ==
  (last.op = "toggle_favorite" /\ last.state_user.kind = "value") =>
    /\ last.status = 200
    /\ last.ret.kind = "value"
    /\ last.ret.val.ok
    /\ \E o \in DOMAIN users :
          /\ ObjectId_str(o) = last.state_user.val["id"]
          /\ "favorites" \in DOMAIN users[o]
          /\ last.ret.val.is_favorite = (last.input.product_id \in users[o]["favorites"])

\* the product routes that write
ProductWrites == {"create_product", "update_product", "delete_product_action"}
\* C19: a product create, update or delete whose request resolves to no user,
\* or to a user whose role is not 'admin', answers 403 and leaves the
\* product collection and the uploads as they were.
C19_WritesOnlyForAdmin ==
  [][(/\ last'.op \in ProductWrites
      /\ ~(/\ last'.state_user.kind = "value"
            /\ Get(last'.state_user.val, "role") = "admin")) =>
       /\ last'.status = 403
       /\ products' = products
       /\ uploads' = uploads]_vars
\* a logged-in user of role 'user' sent a form with a file to PUT
\* /product/{id} of a product an admin had created: 403
C19_Witness ==
  /\ last.op = "update_product" /\ last.status = 403
  /\ last.state_user.kind = "value" /\ last.state_user.val["role"] = "user"
  /\ last.input.form.image_files # <<>>
  /\ ProductOid(last.input.product_id) \in DOMAIN products

\* C20: from a store without users, no sequence of logins, PATCH /users/me,
\* avatar uploads and logouts leaves a user whose role is 'admin' in the
\* store.
C20_NoAdminFromPublicOperations ==
  \A o \in DOMAIN users : Get(users[o], "role") # "admin"

\* C21: however the store calls of concurrent logins interleave, no two user
\* documents carry the same google_id, and a login that returned a user
\* returned the id of the stored document of its identity.
C21_OneUserPerIdentity ==
  /\ \A o1, o2 \in DOMAIN users :
        users[o1]["google_id"] = users[o2]["google_id"] => o1 = o2
  /\ \A th \in DOMAIN inflight :
        (inflight[th].pc = "done" /\ inflight[th].ret.kind = "value") =>
          /\ ObjectId(inflight[th].ret.val["id"]) \in DOMAIN users
          /\ users[ObjectId(inflight[th].ret.val["id"])]["google_id"]
                = google_id_of(inflight[th].user_info)
\* two first logins of one identity both found no user before either wrote:
\* one created the user, the other was refused by the store
C21_Witness ==
  /\ inflight[1].pc = "done" /\ inflight[2].pc = "done"
  /\ inflight[1].found = 0 /\ inflight[2].found = 0
  /\ google_id_of(inflight[1].user_info) = google_id_of(inflight[2].user_info)
  /\ {inflight[1].ret.kind, inflight[2].ret.kind} = {"value", "raise"}
  /\ Cardinality(DOMAIN users) = 1

\* the logout routes
LogoutOps == {"google_logout", "logout"}
\* a session id that was handed out is never handed out again, and a request
\* whose cookie names no stored session gets no user from the middleware
\* and no user from /auth/me
DeletedStaysUnresolved ==
  /\ \A sid \in IssuedBefore : sid \notin DOMAIN sessions => sid \notin DOMAIN sessions'
  /\ (last'.op = "auth_me" /\ last'.arg \notin DOMAIN sessions) =>
        /\ last'.state_user.kind # "value"
        /\ last'.ret.kind # "value"
        /\ last'.status # 200
C25_CreateGetDelete ==
  [][/\ (last'.op = "create_product_in_db" /\ last'.ret.kind = "value") =>
          /\ get_product_from_db(products', last'.ret.val.s, {})
               = RetVal(set_fields(last'.arg, [id |-> last'.ret.val]))
          /\ \A o \in DOMAIN products : o \in DOMAIN products' /\ products'[o] = products[o]
          /\ Cardinality(DOMAIN products') = Cardinality(DOMAIN products) + 1
     /\ (last'.op = "delete_product_in_db" /\ last'.ret.kind = "value") =>
          /\ ProductOid(last'.arg) # 0 =>
                get_product_from_db(products', last'.arg, {}) = RetNone
          /\ \A o \in DOMAIN products' : o \in DOMAIN products /\ products'[o] = products[o]
          /\ Cardinality(DOMAIN products \ DOMAIN products') = last'.ret.val
          /\ last'.ret.val <= 1
     /\ \A o \in 1..(nextPid - 1) : o \notin DOMAIN products => o \notin DOMAIN products'
     /\ last'.op = "get_product_from_db" =>
          /\ products' = products
          /\ IF ProductOid(last'.arg) \in DOMAIN products
             THEN /\ last'.ret.kind = "value"
                  /\ last'.ret.val.id = PyStr(last'.arg)
                  /\ \A k \in DOMAIN last'.ret.val \ {"id"} :
                        last'.ret.val[k] = products[ProductOid(last'.arg)][k]
             ELSE ProductOid(last'.arg) # 0 => last'.ret = RetNone]_vars
\* the first of two products was created and deleted, and its id is looked
\* up: None, with the second product still stored
C25_Witness ==
  /\ last.op = "get_product_from_db" /\ last.arg = str_of_oid(PyOid(1)).s
  /\ last.ret = RetNone
  /\ nextPid > 2
  /\ 1 \notin DOMAIN products /\ 2 \in DOMAIN products

\* C26: an admin's PUT /product/{product_id} reports matched as true only
\* when the update matched a stored product; for an id that matches none the
\* products are unchanged, none is created and no match is reported.
C26_MatchedOnlyWhenMatched ==
  [][(/\ last'.op = "update_product" /\ last'.status = 200
      /\ product_filter(products, strip(last'.input.product_id)) = {}) =>
          /\ products' = products
          /\ ~last'.ret.val.matched]_vars

\* the ids of a list of product dicts
ids_of(r) == {r[i].id : i \in 1..Len(r)}
\* the number of stored products dated after, and not before, this key
newer_than(k) == Cardinality({o \in DOMAIN products : created_key(products[o]) > k})
not_older_than(k) == Cardinality({o \in DOMAIN products : created_key(products[o]) >= k})
\* what one call of list_products_from_db returned is the slice from..upto
\* of a newest-first order of the stored products
slice_of_newest_first(r, from, upto) ==
  LET total == Cardinality(DOMAIN products)
      key(i) == created_key(products[ProductOid(r[i].id.s)])
  IN  /\ Len(r) = (IF upto < total THEN upto ELSE total) - (IF from - 1 < total THEN from - 1 ELSE total)
      /\ \A i \in 1..Len(r) :
            /\ ProductOid(r[i].id.s) \in DOMAIN products
            /\ r[i] = _doc_to_dict_product(products[ProductOid(r[i].id.s)])
            /\ newer_than(key(i)) <= from + i - 2
            /\ not_older_than(key(i)) >= from + i - 1
      /\ \A i, j \in 1..Len(r) : i < j => r[i].id # r[j].id /\ key(i) >= key(j)
\* C27: with limit > 0 list_products_from_db ignores page and page_size and
\* returns the newest min(limit, total) products; with limit = 0 page p is
\* the slice (p-1)*page_size .. p*page_size-1 of the newest-first order; the
\* pages 1..total_pages hold every product exactly once: two pages asked for
\* one after the other share no product, and two pages that are all the
\* pages hold all products; has_next is true exactly when page < total_pages.
C27_Pagination ==
  [][/\ last'.op = "list_products_from_db" =>
          LET a == last'.input
          IN  IF a.limit > 0
              THEN slice_of_newest_first(last'.ret.val, 1, a.limit)
              ELSE slice_of_newest_first(last'.ret.val, (a.page - 1) * a.page_size + 1,
                                         a.page * a.page_size)
     /\ (/\ last.op = "list_products_from_db" /\ last'.op = "list_products_from_db"
         /\ last.input.limit = 0 /\ last'.input.limit = 0
         /\ last.input.page_size = last'.input.page_size
         /\ last.input.page # last'.input.page) =>
          /\ ids_of(last.ret.val) \cap ids_of(last'.ret.val) = {}
          /\ (/\ total_pages(Cardinality(DOMAIN products), last.input.page_size) = 2
              /\ {last.input.page, last'.input.page} = {1, 2}) =>
                ids_of(last.ret.val) \cup ids_of(last'.ret.val)
                  = {str_of_oid(PyOid(o)) : o \in DOMAIN products}
     /\ last'.op = "index" =>
          LET c == last'.ret.val.pagination
          IN  /\ c.total_pages = total_pages(Cardinality(DOMAIN products), PAGE_SIZE)
              /\ c.has_next = (last'.input.page < c.total_pages)]_vars

\* C24: _normalize_product returns a list under 'images' for every stored
\* shape of the image fields: images as a list, the legacy imagenes as a dict
\* or a list, the dict-shaped images load_data_etl writes, or none of them.
C24_ImagesIsList ==
  (last.op = "_normalize_product" /\ last.ret.kind = "value") =>
      last.ret.val.images.t = "list"

\* C23: a login that succeeds adds exactly one session, the one of its
\* cookie, and a login or a logout leaves every session other than its own
\* stored as it was: a logout removes at most the session its cookie names.
C23_OwnSessionOnly ==
  [][/\ last'.op = "google_callback" =>
          /\ \A s \in DOMAIN sessions : s \in DOMAIN sessions' /\ sessions'[s] = sessions[s]
          /\ last'.status = 307 =>
                /\ last'.set_cookie.value \notin DOMAIN sessions
                /\ DOMAIN sessions' = DOMAIN sessions \cup {last'.set_cookie.value}
          /\ last'.status # 307 => DOMAIN sessions' = DOMAIN sessions
     /\ last'.op \in LogoutOps =>
          /\ DOMAIN sessions' \subseteq DOMAIN sessions
          /\ \A s \in DOMAIN sessions \ {last'.arg} :
                s \in DOMAIN sessions' /\ sessions'[s] = sessions[s]]_vars
\* the one user of the store held two sessions and logged out of the first:
\* the second is still stored
C23_Witness ==
  /\ last.op = "google_logout" /\ last.arg = uuid4_str(1)
  /\ Cardinality(DOMAIN users) = 1
  /\ DOMAIN sessions = {uuid4_str(2)}
  /\ sessions[uuid4_str(2)].expires_at > now

\* ----------------------------------------------------------- specifications
\* the session store and the two logout routes
NextStore ==
  \/ Tick
  \/ CreateSession
  \/ CreateSessionWithMeta
  \/ GetSession
  \/ GoogleLogout
  \/ Logout

SpecStore == Init /\ [][NextStore]_vars

\* logins alone
NextLogin ==
  \/ Tick
  \/ GoogleCallback

SpecLogin == Init /\ [][NextLogin]_vars

\* the application: sessions, logins and the requests that follow them
Next ==
  \/ Tick
  \/ CreateSession
  \/ GoogleCallback
  \/ AuthMe

Spec == Init /\ [][Next]_vars
\* product normalization, applied to the stored document shapes
\* logins and profile changes, over time
NextProfile ==
  \/ Tick
  \/ Login
  \/ UpdateMe
SpecProfile == Init /\ [][NextProfile]_vars

\* the operations open to every visitor: logins, profile changes, avatar
\* uploads and logout
NextAccount ==
  \/ Login
  \/ UpdateMe
  \/ UploadAvatar
  \/ Logout
SpecAccount == Init /\ [][NextAccount]_vars

\* the catalog: logins, the product routes and the product listing
NextCatalog ==
  \/ CatalogLogin
  \/ CreateProduct
  \/ UpdateProduct
  \/ DeleteProduct
  \/ ListProducts
SpecCatalog == Init /\ [][NextCatalog]_vars

\* logins and the favorites route
NextFavorites ==
  \/ Login
  \/ ToggleFavorite
SpecFavorites == Init /\ [][NextFavorites]_vars

\* logins whose store calls interleave
NextConcurrent ==
  \/ LoginBegin
  \/ LoginFind
  \/ LoginWrite
SpecConcurrent == Init /\ [][NextConcurrent]_vars

\* the life of a session: logins, requests, logouts and the clock
NextSession ==
  \/ Tick
  \/ CatalogLogin
  \/ AuthMe
  \/ GoogleLogout
  \/ Logout
SpecSession == Init /\ [][NextSession]_vars

\* the product store called directly, and the home page over it
NextCatalogStore ==
  \/ CreateProductInDb
  \/ GetProductFromDb
  \/ DeleteProductInDb
  \/ ListProductsFromDb
  \/ Index
SpecCatalogStore == Init /\ [][NextCatalogStore]_vars

NextNormalize == NormalizeProduct
SpecNormalize == Init /\ [][NextNormalize]_vars
====
